---- MODULE Spec2Model ----
(***************************************************************************)
(* Strazzle::String (src/include/Strazzle/String.h): a string with a       *)
(* 16-byte inline buffer that moves to a malloc'ed buffer of 2^exp bytes,  *)
(* under Spec; and Strazzle::BaseString<char> on its StringAllocator       *)
(* (src/include/BaseString.h), a string on a heap block of 2^exp bytes,    *)
(* under SpecBase.  Both use the same variables for the block, the length  *)
(* and the record of the last call.                                        *)
(*                                                                         *)
(* Memory is modelled by cells.  A buffer is a sequence of cells; C index  *)
(* i is element i + 1.  The String's pointer _data is "sso" (it points to  *)
(* _sso_buffer) or "heap" (it points to the heap block `heap`, which is    *)
(* live or already freed).  What C leaves undefined is a choice made by    *)
(* the action that executes it: bytes never written (a fresh malloc block, *)
(* the inline buffer of a new object), bytes read outside a buffer and the *)
(* contents of a freed block are drawn from Garbage; a write outside the   *)
(* buffer lands in memory the model does not hold and is recorded in       *)
(* last.ub, as is every other undefined step.                              *)
(*                                                                         *)
(* A size_t that wrapped below zero is kept as the negative number that is *)
(* congruent to it modulo 2^64; no operation is started on a String whose  *)
(* length left 0..MaxLen.                                                  *)
(***************************************************************************)
EXTENDS Integers, Sequences, FiniteSets, TLC

VARIABLES
    sso_buffer,    \* char _sso_buffer[SSO_SIZE]
    heap,          \* the cells of the heap block _data (alloc.c) points to
    hstate,        \* "none": no block yet, "live": malloc'ed, "freed": free'd
    data,          \* char* _data: "sso" or "heap"
    len,           \* std::size_t _len (BaseString: uint64_t l)
    mode,          \* Mode _mode
    reserved_exp,  \* uint8_t _reserved_exp
    size_exp,      \* uint8_t StringAllocator::size_exp
    actual_size_exp, \* uint8_t StringAllocator::actual_size_exp
    leaked,        \* live blocks no pointer refers to any more
    nops,          \* operations called since construction
    last,          \* the last call: its arguments, the String before it, what it did
    smallOnly,     \* every size requested so far was <= SSO_SIZE
    allocated,     \* malloc has been called at least once
    pinned,        \* {N} after Reserve(N) followed only by Erase calls, else {}
    ref,           \* the one Reference the program takes: its _i and _len
    copy           \* the String constructed from this one, when there is one

vars == <<sso_buffer, heap, hstate, data, len, mode, reserved_exp, size_exp,
          actual_size_exp, leaked, nops, last, smallOnly, allocated, pinned,
          ref, copy>>

----------------------------------------------------------------------------
(* Bounds of the model *)

MaxOps == 2
MaxLen == 24

(* Program constants *)

SSO_SIZE == 16
NUL == 0
\* SIZE_MAX is 2^64 - 1 in the program; TLC's integers end at 2^31 - 1.  It is
\* only ever the right operand of std::min, where both give the left operand.
SIZE_MAX == 2147483647

Garbage == {0, 255}

Min(a, b) == IF a < b THEN a ELSE b

----------------------------------------------------------------------------
(* Exponent arithmetic *)

ExpToNum(exp) == IF exp # 0 THEN 2 ^ exp ELSE 0

RECURSIVE BitLen(_)
BitLen(x) == IF x = 0 THEN 0 ELSE 1 + BitLen(x \div 2)

Clz(x) == IF x # 0 THEN 64 - BitLen(x) ELSE 64

GetExponent(x) ==
    LET clz_x   == Clz(x)
        \* x - 1 wraps to 2^64 - 1 for x = 0: no leading zero
        clz_xm1 == IF x = 0 THEN 0 ELSE Clz(x - 1)
    IN  IF (clz_x # clz_xm1) /\ (x # 0) THEN 63 - clz_x ELSE 64 - clz_x

----------------------------------------------------------------------------
(* Memory access through _data *)

BufOf(M) ==
    CASE M.data = "sso"  -> M.sso_buffer
      [] M.data = "heap" -> M.heap
      [] OTHER           -> <<>>      \* _data = NULL

Dangling(M) == M.data = "heap" /\ M.hstate = "freed"

CellAt(M, i, g) ==
    LET b == BufOf(M) IN IF i >= 0 /\ i < Len(b) THEN b[i + 1] ELSE g

\* the n cells read from _data + start
ReadCells(M, start, n, g) == [j \in 1..n |-> CellAt(M, start + j - 1, g)]

ReadUB(M, start, n) ==
    IF n <= 0 THEN {}
    ELSE IF M.data = "null" THEN {"null_deref"}
    ELSE (IF start < 0 \/ start + n > Len(BufOf(M)) THEN {"oob_read"} ELSE {})
         \cup (IF Dangling(M) THEN {"use_after_free"} ELSE {})

WriteUB(M, start, n) ==
    IF n <= 0 THEN {}
    ELSE IF M.data = "null" THEN {"null_deref"}
    ELSE (IF start < 0 \/ start + n > Len(BufOf(M)) THEN {"oob_write"} ELSE {})
         \cup (IF Dangling(M) THEN {"use_after_free"} ELSE {})

Flag(M, s) == [M EXCEPT !.ub = @ \cup s]

\* vals stored at _data + start; what falls outside the buffer is not held
WriteCells(M, start, vals) ==
    LET b  == BufOf(M)
        nb == [j \in 1..Len(b) |->
                 IF j - 1 >= start /\ j - 1 < start + Len(vals)
                 THEN vals[j - start] ELSE b[j]]
        W  == CASE M.data = "sso"  -> [M EXCEPT !.sso_buffer = nb]
                [] M.data = "heap" -> [M EXCEPT !.heap = nb]
                [] OTHER           -> M
    IN  Flag(W, WriteUB(M, start, Len(vals)))

\* malloc(n): n cells nobody has written
Malloc(n, g) == [j \in 1..n |-> g]

FreeUB(M) ==
    IF M.data = "sso" THEN {"invalid_free"}
    ELSE IF M.hstate = "freed" THEN {"double_free"} ELSE {}

----------------------------------------------------------------------------
(* The private part of String *)

\* GetNewMode with the heap side of the threshold taken at size = SSO_SIZE:
\* the variant C4_StaysInline tells apart from the code
GetNewMode_AtThreshold(M, size) ==
    IF M.len >= SSO_SIZE /\ size < SSO_SIZE THEN "SMALL_STRING"
    ELSE IF M.len < SSO_SIZE /\ size >= SSO_SIZE THEN "LARGE_STRING"
    ELSE "NONE"

GetNewMode(M, size) ==
    IF M.len >= SSO_SIZE /\ size < SSO_SIZE THEN "SMALL_STRING"
    ELSE IF M.len < SSO_SIZE /\ size > SSO_SIZE THEN "LARGE_STRING"
    ELSE "NONE"

\* k: a freed block that is read has been overwritten by the allocator
ToLarge(M, exp, g, k) ==
    LET p   == Malloc(ExpToNum(exp), g)
        src == IF Dangling(M) /\ k THEN [j \in 1..M.len |-> g]
               ELSE ReadCells(M, 0, M.len, g)
        np  == [j \in 1..Len(p) |-> IF j <= M.len THEN src[j] ELSE p[j]]
    IN  IF M.nomem
        THEN \* malloc returned NULL: memcpy(NULL, ...), _data = NULL
             [M EXCEPT
                !.data   = "null",
                !.mode   = "LARGE_STRING",
                !.leaked = IF M.data = "heap" /\ M.hstate = "live" THEN @ + 1 ELSE @,
                !.failed = TRUE,
                !.ub     = @ \cup ReadUB(M, 0, M.len) \cup {"null_deref"}]
        ELSE
        [M EXCEPT
           !.heap   = np,
           !.hstate = "live",
           !.data   = "heap",
           !.mode   = "LARGE_STRING",
           !.leaked = IF M.data = "heap" /\ M.hstate = "live" THEN @ + 1 ELSE @,
           !.fresh  = TRUE,
           !.ub     = @ \cup ReadUB(M, 0, M.len)
                        \cup (IF M.len > Len(p) THEN {"oob_write"} ELSE {})]

\* k: free() overwrites the block it takes back.  _data is left as it is.
ToSmall(M, g, k) ==
    LET newlen == Min(SSO_SIZE, M.len)
        src    == ReadCells(M, 0, newlen, g)
        nsso   == [j \in 1..SSO_SIZE |->
                     IF j <= newlen THEN src[j] ELSE M.sso_buffer[j]]
        nheap  == IF M.data = "heap" /\ k
                  THEN [j \in 1..Len(M.heap) |-> g] ELSE M.heap
    IN  [M EXCEPT
           !.len        = newlen,
           !.sso_buffer = nsso,
           !.heap       = nheap,
           !.hstate     = IF M.data = "heap" THEN "freed" ELSE @,
           !.mode       = "SMALL_STRING",
           !.ub         = @ \cup ReadUB(M, 0, newlen) \cup FreeUB(M)
                            \cup (IF M.data = "sso" /\ newlen > 0
                                  THEN {"memcpy_overlap"} ELSE {})]

Realloc(M, exp, g) ==
    LET byte_c == ExpToNum(exp)
        p      == Malloc(byte_c, g)
        n      == Min(byte_c, M.len)
        src    == ReadCells(M, 0, n, g)
        np     == [j \in 1..Len(p) |-> IF j <= n THEN src[j] ELSE p[j]]
    IN  IF M.nomem
        THEN \* malloc returned NULL: memcpy(NULL, ...), free(_data), _data = NULL
             [M EXCEPT
                !.data   = "null",
                !.hstate = IF M.data = "heap" THEN "freed" ELSE @,
                !.failed = TRUE,
                !.ub     = @ \cup ReadUB(M, 0, n) \cup FreeUB(M) \cup {"null_deref"}]
        ELSE
        [M EXCEPT
           !.heap   = np,
           !.hstate = "live",
           !.data   = "heap",
           !.fresh  = TRUE,
           !.ub     = @ \cup ReadUB(M, 0, n) \cup FreeUB(M)]

ChangeMode(M, new_mode, exp, g, k) ==
    CASE new_mode = "LARGE_STRING" -> ToLarge(M, exp, g, k)
      [] new_mode = "SMALL_STRING" -> ToSmall(M, g, k)
      [] OTHER -> M

ResizeAllocation(M, size, g, k) ==
    LET new_exp == GetExponent(size) IN
    IF new_exp < M.reserved_exp THEN M
    ELSE LET new_mode == GetNewMode(M, size) IN
         IF new_mode # "NONE" THEN ChangeMode(M, new_mode, new_exp, g, k)
         ELSE IF M.mode = "LARGE_STRING" THEN Realloc(M, new_exp, g)
         ELSE M

Terminate(M) == WriteCells(M, M.len, <<NUL>>)

----------------------------------------------------------------------------
(* The public operations.  M.result is "out_of_range" when the call threw   *)
(* before it changed anything.                                              *)

\* String::Append (Sequences already defines Append)
StringAppend(M, str, size, g, k) ==
    LET n  == Min(Len(str), size)
        M1 == ResizeAllocation(M, n + M.len + 1, g, k)
        M2 == WriteCells(M1, M1.len, SubSeq(str, 1, n))
    IN  Terminate([M2 EXCEPT !.len = n + M2.len])

\* Insert that also refuses i = _len: the variant C13_InsertBounds tells apart
Insert_RefusesEnd(M, str, i, size, g, k) ==
    IF i >= M.len THEN [M EXCEPT !.result = "out_of_range"]
    ELSE
    LET n    == Min(Len(str), size)
        M1   == ResizeAllocation(M, n + M.len + 1, g, k)
        tail == ReadCells(M1, i, M1.len - i, g)
        M2   == WriteCells(Flag(M1, ReadUB(M1, i, M1.len - i)), i + n, tail)
        M3   == WriteCells(M2, i, SubSeq(str, 1, n))
    IN  Terminate([M3 EXCEPT !.len = n + M3.len])

\* Insert that asks for no room for the terminator: the variant
\* C21_InsertAtEndIsAppend tells apart
Insert_NoTerminatorRoom(M, str, i, size, g, k) ==
    IF i > M.len THEN [M EXCEPT !.result = "out_of_range"]
    ELSE
    LET n    == Min(Len(str), size)
        M1   == ResizeAllocation(M, n + M.len, g, k)
        tail == ReadCells(M1, i, M1.len - i, g)
        M2   == WriteCells(Flag(M1, ReadUB(M1, i, M1.len - i)), i + n, tail)
        M3   == WriteCells(M2, i, SubSeq(str, 1, n))
    IN  Terminate([M3 EXCEPT !.len = n + M3.len])

Insert(M, str, i, size, g, k) ==
    IF i > M.len THEN [M EXCEPT !.result = "out_of_range"]
    ELSE
    LET n    == Min(Len(str), size)
        M1   == ResizeAllocation(M, n + M.len + 1, g, k)
        tail == ReadCells(M1, i, M1.len - i, g)
        M2   == WriteCells(Flag(M1, ReadUB(M1, i, M1.len - i)), i + n, tail)
        M3   == WriteCells(M2, i, SubSeq(str, 1, n))
    IN  Terminate([M3 EXCEPT !.len = n + M3.len])

\* Erase that accepts i = _len: the variant C14_IndexBounds tells apart
Erase_AcceptsEnd(M, i, size, g, k) ==
    IF i > M.len THEN [M EXCEPT !.result = "out_of_range"]
    ELSE
    LET n     == Min(M.len - i, size)
        moved == ReadCells(M, i + n, M.len - i, g)
        M1    == WriteCells(Flag(M, ReadUB(M, i + n, M.len - i)), i, moved)
        M2    == ResizeAllocation(M1, M1.len - n, g, k)
    IN  Terminate([M2 EXCEPT !.len = M2.len - n])

Erase(M, i, size, g, k) ==
    IF i >= M.len THEN [M EXCEPT !.result = "out_of_range"]
    ELSE
    LET n     == Min(M.len - i, size)
        moved == ReadCells(M, i + n, M.len - i, g)
        M1    == WriteCells(Flag(M, ReadUB(M, i + n, M.len - i)), i, moved)
        M2    == ResizeAllocation(M1, M1.len - n, g, k)
    IN  Terminate([M2 EXCEPT !.len = M2.len - n])

\* Resize(std::size_t, char)
ResizeChar(M, size, fill, g, k) ==
    LET M1 == ResizeAllocation(M, size + 1, g, k)
        M2 == IF size > M1.len
              THEN WriteCells(M1, M1.len, [j \in 1..(size - M1.len) |-> fill])
              ELSE M1
    IN  Terminate([M2 EXCEPT !.len = size])

\* the while loop of Resize(std::size_t, const char*); fill is not empty
RECURSIVE FillLoop(_, _, _)
FillLoop(M, size, fill) ==
    IF M.len < size
    THEN LET str_len == Len(fill)
             n       == IF M.len + str_len <= size THEN str_len ELSE size - M.len
             W       == WriteCells(M, M.len, SubSeq(fill, 1, n))
         IN  FillLoop([W EXCEPT !.len = @ + str_len], size, fill)
    ELSE M

\* Resize(std::size_t, const char*)
ResizeStr(M, size, fill, g, k) ==
    LET M1 == ResizeAllocation(M, size + 1, g, k)
        M2 == IF size > M1.len THEN FillLoop(M1, size, fill)
              ELSE [M1 EXCEPT !.len = size]
    IN  Terminate(M2)

Reserve(M, size, g, k) ==
    LET M1      == [M EXCEPT !.reserved_exp = GetExponent(size)]
        cur_exp == GetExponent(M.len)
    IN  IF cur_exp < M1.reserved_exp THEN ResizeAllocation(M1, size, g, k)
        ELSE M1

\* a new object before its constructor's body: _data(_sso_buffer), _len = 0
Raw(g) == [sso_buffer |-> [j \in 1..SSO_SIZE |-> g], heap |-> <<>>,
           hstate |-> "none", data |-> "sso", len |-> 0,
           mode |-> "SMALL_STRING", reserved_exp |-> 0, size_exp |-> 0,
           actual_size_exp |-> 0, leaked |-> 0,
           ub |-> {}, fresh |-> FALSE, result |-> "ok", ret |-> <<>>,
           nomem |-> FALSE, failed |-> FALSE, code |-> "OK"]

\* what Cstr()/Len() show: the _len bytes at _data that lie in the buffer
ContentOf(M) == SubSeq(BufOf(M), 1, Min(M.len, Len(BufOf(M))))

\* strlen(_data + off): the bytes before the first NUL; the scan stops at the
\* end of the buffer when it holds none
StrlenAt(M, off) ==
    LET b    == BufOf(M)
        nuls == { j \in off..(Len(b) - 1) : b[j + 1] = NUL }
    IN  IF nuls # {} THEN (CHOOSE j \in nuls : \A q \in nuls : j <= q) - off
        ELSE IF Len(b) > off THEN Len(b) - off ELSE 0

StrlenUB(M, off) ==
    (IF \E j \in off..(Len(BufOf(M)) - 1) : BufOf(M)[j + 1] = NUL
     THEN {} ELSE {"oob_read"})
    \cup (IF Dangling(M) THEN {"use_after_free"} ELSE {})

Substr(M, i, size, g) ==
    IF i >= M.len THEN [M EXCEPT !.result = "out_of_range"]
    ELSE
    LET sz  == Min(M.len - i, size)
        sl  == StrlenAt(M, i)
        N   == StringAppend(Raw(g), ReadCells(M, i, sl, g), sz, g, FALSE)
    IN  [M EXCEPT !.ret = [len |-> N.len, content |-> ContentOf(N)],
                  !.ub  = @ \cup StrlenUB(M, i) \cup N.ub]

RefSubstr(M, i, size) ==
    IF i >= M.len THEN [M EXCEPT !.result = "out_of_range"]
    ELSE [M EXCEPT !.ret = [i |-> i, len |-> Min(M.len - i, size)]]

\* CheckBounds that looks at the Reference's start only: the variant
\* C12_StaleReferenceRefused tells apart
RefInBounds_StartOnly(M, r) == ~(r.i > M.len)

\* Reference::CheckBounds
RefInBounds(M, r) == ~(r.i + r.len > M.len)

\* the block M0._data pointed to is no longer allocated when Mc is reached:
\* it was freed before the call, or Realloc freed it in this call
OldGone(M0, Mc) ==
    /\ M0.data = "heap"
    /\ \/ M0.hstate = "freed"
       \/ Mc.fresh /\ Mc.leaked = M0.leaked

\* the n bytes at (M0._data + off), a pointer taken before the call, read
\* when the String is Mc; k: the allocator has overwritten a block it took back
SrcCells(M0, Mc, off, n, g, k) ==
    LET b == IF M0.data = "sso" THEN Mc.sso_buffer
             ELSE IF Mc.fresh THEN M0.heap ELSE Mc.heap
    IN  [j \in 1..n |->
           IF OldGone(M0, Mc) /\ Mc.fresh /\ k THEN g
           ELSE IF off + j - 1 < Len(b) THEN b[off + j] ELSE g]

SrcUB(M0, Mc, n) ==
    IF n > 0 /\ OldGone(M0, Mc) THEN {"use_after_free"} ELSE {}

\* Append(const Reference&, std::size_t); the Reference's base is this String
AppendRef(M, r, size, g, k) ==
    IF ~RefInBounds(M, r) THEN [M EXCEPT !.result = "out_of_range"]
    ELSE
    LET n   == Min(StrlenAt(M, r.i), Min(r.len, size))
        M1  == ResizeAllocation(Flag(M, StrlenUB(M, r.i)), n + M.len + 1, g, k)
        src == SrcCells(M, M1, r.i, n, g, k)
        M2  == WriteCells(Flag(M1, SrcUB(M, M1, n)), M1.len, src)
    IN  Terminate([M2 EXCEPT !.len = n + M2.len])

\* Insert(const Reference&, std::size_t, std::size_t); the Reference's base
\* is this String: memcpy reads the bytes after memmove has shifted the tail
InsertRef(M, r, i, size, g, k) ==
    IF ~RefInBounds(M, r) THEN [M EXCEPT !.result = "out_of_range"]
    ELSE IF i > M.len THEN [M EXCEPT !.result = "out_of_range"]
    ELSE
    LET n    == Min(StrlenAt(M, r.i), Min(r.len, size))
        M1   == ResizeAllocation(Flag(M, StrlenUB(M, r.i)), n + M.len + 1, g, k)
        tail == ReadCells(M1, i, M1.len - i, g)
        M2   == WriteCells(Flag(M1, ReadUB(M1, i, M1.len - i)), i + n, tail)
        src  == SrcCells(M, M2, r.i, n, g, k)
        over == IF n > 0 /\ ~M2.fresh /\ r.i < i + n /\ i < r.i + n
                THEN {"memcpy_overlap"} ELSE {}
        M3   == WriteCells(Flag(M2, SrcUB(M, M2, n) \cup over), i, src)
    IN  Terminate([M3 EXCEPT !.len = n + M3.len])

----------------------------------------------------------------------------
(* StringAllocator<char> and BaseString<char> (src/include/BaseString.h).   *)
(* The block alloc.c points to is `heap`, alloc.c = nullptr is hstate =     *)
(* "none", and the length l is `len`.  operator new[] throws when it fails, *)
(* so no call returns ALLOC_ERR.  M.code is the StringAllocError a call of  *)
(* the allocator returned.                                                  *)

NextExponent(x) == 64 - Clz(x)

\* a new BaseString before its constructor's body: alloc.c = nullptr, l = 0
RawBase == [sso_buffer |-> <<>>, heap |-> <<>>, hstate |-> "none",
            data |-> "heap", len |-> 0, mode |-> "NONE", reserved_exp |-> 0,
            size_exp |-> 0, actual_size_exp |-> 0, leaked |-> 0,
            ub |-> {}, fresh |-> FALSE, result |-> "ok", ret |-> <<>>,
           nomem |-> FALSE, failed |-> FALSE, code |-> "OK"]

\* ReallocToExp that adopts the exponent before it allocates: the variant
\* C32_ReallocFailureUntouched tells apart
ReallocToExp_AdoptsFirst(M, exponent, g) ==
    LET size == 2 ^ exponent
        nc   == Malloc(size, g)
    IN  IF M.nomem
        THEN [M EXCEPT !.result = "bad_alloc", !.failed = TRUE,
                       !.size_exp = exponent, !.actual_size_exp = exponent]
        ELSE
        IF M.hstate # "none"
        THEN [M EXCEPT
                !.heap            = ReadCells(M, 0, size, g),
                !.hstate          = "live",
                !.size_exp        = exponent,
                !.actual_size_exp = exponent,
                !.fresh           = TRUE,
                !.code            = "OK",
                !.ub              = @ \cup ReadUB(M, 0, size) \cup FreeUB(M)]
        ELSE [M EXCEPT
                !.heap            = nc,
                !.hstate          = "live",
                !.size_exp        = exponent,
                !.actual_size_exp = exponent,
                !.fresh           = TRUE,
                !.code            = "OK"]

\* memcpy(nc, c, size) reads size bytes of the old block, whatever its size
ReallocToExp(M, exponent, g) ==
    LET size == 2 ^ exponent
        nc   == Malloc(size, g)
    IN  IF M.nomem
        THEN \* new CharT[size] throws std::bad_alloc
             [M EXCEPT !.result = "bad_alloc", !.failed = TRUE]
        ELSE
        IF M.hstate # "none"
        THEN \* c != nullptr: memcpy from c, delete[] c
             [M EXCEPT
                !.heap            = ReadCells(M, 0, size, g),
                !.hstate          = "live",
                !.size_exp        = exponent,
                !.actual_size_exp = exponent,
                !.fresh           = TRUE,
                !.code            = "OK",
                !.ub              = @ \cup ReadUB(M, 0, size) \cup FreeUB(M)]
        ELSE [M EXCEPT
                !.heap            = nc,
                !.hstate          = "live",
                !.size_exp        = exponent,
                !.actual_size_exp = exponent,
                !.fresh           = TRUE,
                !.code            = "OK"]

\* Realloc that rounds the size down to a power of two: the variant
\* C39_AllocatorExponents tells apart
AllocRealloc_RoundsDown(M, size, g) ==
    ReallocToExp(M, NextExponent(size \div 2), g)

AllocRealloc(M, size, g) == ReallocToExp(M, NextExponent(size), g)

\* Shrink that rounds size itself up: the variant C27_Shrink tells apart
AllocShrink_OfSize(M, size, g) ==
    IF size >= 2 ^ M.size_exp \/ M.hstate = "none" THEN [M EXCEPT !.code = "IGNORED"]
    ELSE LET e  == NextExponent(size)
             M1 == [M EXCEPT !.size_exp = e, !.code = "OK"]
         IN  IF M.actual_size_exp - e >= 2 THEN ReallocToExp(M1, e, g) ELSE M1

AllocShrink(M, size, g) ==
    IF size >= 2 ^ M.size_exp \/ M.hstate = "none" THEN [M EXCEPT !.code = "IGNORED"]
    ELSE LET e  == NextExponent(IF size # 0 THEN size - 1 ELSE 0)
             M1 == [M EXCEPT !.size_exp = e, !.code = "OK"]
         IN  IF M.actual_size_exp - e >= 2 THEN ReallocToExp(M1, e, g) ELSE M1

\* current_size is read before the nullptr case allocates
AllocResize(M, size, g) ==
    LET current_size == 2 ^ M.size_exp
        M1 == IF M.hstate = "none" THEN AllocRealloc(M, size, g) ELSE M
    IN  IF M1.result # "ok" THEN M1
        ELSE IF size < current_size THEN AllocShrink(M1, size, g)
        ELSE IF size > current_size THEN AllocRealloc(M1, size, g)
        ELSE [M1 EXCEPT !.code = "IGNORED"]

\* StringAllocator::Free: c keeps the address of the block
AllocFree(M) ==
    [M EXCEPT !.hstate          = IF @ = "none" THEN "none" ELSE "freed",
              !.size_exp        = 0,
              !.actual_size_exp = 0,
              !.ub              = @ \cup (IF M.hstate = "freed" THEN {"double_free"} ELSE {})]

\* the constructor without its cut to size: the variant C24_CtorTakesPrefix
\* tells apart
BaseCtor_WholeString(str, size, g) ==
    LET n  == Len(str)
        M1 == AllocResize(RawBase, n + 1, g)
        M2 == WriteCells(M1, 0, SubSeq(str, 1, n))
    IN  IF M1.result # "ok" THEN M1 ELSE Terminate([M2 EXCEPT !.len = n])

\* BaseString(const CharT* str, std::size_t size)
BaseCtor(str, size, g) ==
    LET n  == Min(size, Len(str))
        M1 == AllocResize(RawBase, n + 1, g)
        M2 == WriteCells(M1, 0, SubSeq(str, 1, n))
    IN  IF M1.result # "ok" THEN M1 ELSE Terminate([M2 EXCEPT !.len = n])

BaseAppend(M, str, size, g) ==
    LET append_size == Min(size, Len(str))
        M1 == AllocResize(M, M.len + append_size + 1, g)
        M2 == WriteCells(M1, M1.len, SubSeq(str, 1, append_size))
    IN  IF M1.result # "ok" THEN M1
        ELSE Terminate([M2 EXCEPT !.len = @ + append_size])

\* the tail is moved by strlen(str), the length grows by insert_len
BaseInsert(M, i, str, size, g) ==
    IF i = M.len THEN BaseAppend(M, str, size, g)
    ELSE IF i >= M.len THEN [M EXCEPT !.result = "runtime_error"]
    ELSE
    LET str_len    == Len(str)
        insert_len == Min(size, str_len)
        M1   == AllocResize(M, M.len + insert_len + 1, g)
        tail == ReadCells(M1, i, M1.len - i, g)
        M2   == WriteCells(Flag(M1, ReadUB(M1, i, M1.len - i)), i + str_len, tail)
        M3   == WriteCells(M2, i, SubSeq(str, 1, insert_len))
    IN  IF M1.result # "ok" THEN M1
        ELSE Terminate([M3 EXCEPT !.len = @ + insert_len])

\* size is cut to l, and l bytes are moved
BaseErase(M, i, size, g) ==
    IF i >= M.len THEN [M EXCEPT !.result = "runtime_error"]
    ELSE
    LET n     == IF size > M.len THEN M.len ELSE size
        moved == ReadCells(M, i + n, M.len, g)
        M1    == WriteCells(Flag(M, ReadUB(M, i + n, M.len)), i, moved)
        M2    == Terminate([M1 EXCEPT !.len = @ - n])
    IN  AllocResize(M2, M2.len + 1, g)

\* BaseString::Ref: size is cut to l, whatever i is
BaseRef(M, i, size) ==
    IF i >= M.len THEN [M EXCEPT !.result = "runtime_error"]
    ELSE [M EXCEPT !.ret = [i |-> i, len |-> IF size > M.len THEN M.len ELSE size]]

\* BaseString::Substr: the constructor stops at the terminator
BaseSubstr(M, i, size, g) ==
    IF i >= M.len THEN [M EXCEPT !.result = "runtime_error"]
    ELSE
    LET sz == IF size > M.len THEN M.len ELSE size
        N  == BaseCtor(ReadCells(M, i, StrlenAt(M, i), g), sz, g)
    IN  [M EXCEPT !.ret = [len |-> N.len, content |-> ContentOf(N)],
                  !.ub  = @ \cup StrlenUB(M, i) \cup N.ub]

\* the for loop of BaseString::Resize; fill is not empty
RECURSIVE BaseFillLoop(_, _, _, _, _)
BaseFillLoop(M, i, size, fill, g) ==
    LET sl == Len(fill) IN
    IF i < size
    THEN IF i + sl > size THEN BaseAppend(M, fill, (i + sl) - size, g)
         ELSE LET A == BaseAppend(M, fill, SIZE_MAX, g)
              IN  IF A.result # "ok" THEN A
                  ELSE BaseFillLoop(A, i + sl, size, fill, g)
    ELSE M

BaseResize(M, size, fill, g) ==
    LET M1 == AllocResize(M, size + 1, g)
        M2 == IF size > M1.len THEN BaseFillLoop(M1, M1.len, size, fill, g)
              ELSE M1
    IN  IF M1.result # "ok" THEN M1
        ELSE IF M2.result # "ok" THEN M2
        ELSE Terminate([M2 EXCEPT !.len = size])

\* 16 in SMALL_STRING mode, the size of the heap block in LARGE_STRING mode
CapacityOf(M) ==
    IF M.mode = "SMALL_STRING" THEN SSO_SIZE
    ELSE IF M.data = "null" THEN 0 ELSE Len(M.heap)

----------------------------------------------------------------------------
(* Inputs *)

\* n bytes: first + 1, first + 2, ...
Text(first, n) == [j \in 1..n |-> first + j]

Upper(n) == Text(64, n)     \* "ABC..."
Lower(n) == Text(96, n)     \* "abc..."

\* <<str, size>> of String(str, size) and Append(str, size)
CtorArgs    == { <<Upper(n), SIZE_MAX>> : n \in {0, 3, 15, 16, 17, 20} }
                 \cup { <<Upper(3), 2>> }
AppendArgs  == { <<<<120, 121>>, 0>>, <<<<120, 121>>, 1>>,
                 <<<<120, 121>>, SIZE_MAX>>, <<Lower(17), SIZE_MAX>> }
\* <<str, i, size>> of Insert(str, i, size)
InsertArgs  == { <<<<120, 121>>, i, SIZE_MAX>> : i \in {0, 1, len, len + 1} }
                 \cup { <<<<120, 121>>, 1, 1>>, <<Lower(17), 1, SIZE_MAX>> }
\* <<i, size>> of Erase(i, size)
EraseArgs   == { <<0, 1>>, <<1, 2>>, <<0, 5>>, <<1, SIZE_MAX>>,
                 <<0, SIZE_MAX>>, <<len, 1>> }
\* size of Resize(size, ' ')
ResizeSizes == { 0, 3, 15, 20 }
\* <<size, fill>> of Resize(size, fill)
ResizeArgs  == { <<3, <<120, 121>>>>, <<15, <<120, 121>>>>,
                 <<20, <<120, 121, 122>>>> }
ReserveSizes == { 0, 16, 32 }

\* <<i, str, size>> of BaseString::Insert(i, str, size)
BaseInsertArgs == { <<i, <<120, 121>>, SIZE_MAX>> : i \in {0, 1, len, len + 1} }
                    \cup { <<1, <<120, 121>>, 1>>, <<0, Lower(17), SIZE_MAX>> }
\* <<i, size>> of BaseString::Erase(i, size)
BaseEraseArgs  == { <<0, 1>>, <<1, 2>>, <<1, SIZE_MAX>>, <<0, SIZE_MAX>>,
                    <<len, 1>> }
                    \cup (IF len > 0 THEN { <<len - 1, 1>> } ELSE {})
\* <<size, fill>> of BaseString::Resize(size, fill)
BaseResizeArgs == { <<0, <<32>>>>, <<2, <<32>>>>, <<3, <<120, 121>>>>,
                    <<4, <<120, 121, 122>>>>, <<11, <<120, 121>>>>,
                    <<20, <<120, 121, 122>>>> }

\* <<i, size>> of Substr(i, size) and RefSubstr(i, size)
SubstrArgs == { <<0, SIZE_MAX>>, <<1, 2>>, <<2, SIZE_MAX>>, <<0, 1>>, <<len, 1>> }
\* size of Append(ref, size)
AppendRefSizes == { 1, SIZE_MAX }
\* <<i, size>> of Insert(ref, i, size)
InsertRefArgs == { <<0, SIZE_MAX>>, <<1, 1>>, <<len, SIZE_MAX>>, <<len + 1, SIZE_MAX>> }

\* what the allocator may have done to a block it was given back
Clobber == IF data = "heap" THEN BOOLEAN ELSE {FALSE}

----------------------------------------------------------------------------
(* The String as a record, and a call's effect on the variables *)

Str == [sso_buffer |-> sso_buffer, heap |-> heap, hstate |-> hstate,
        data |-> data, len |-> len, mode |-> mode,
        reserved_exp |-> reserved_exp, size_exp |-> size_exp,
        actual_size_exp |-> actual_size_exp, leaked |-> leaked,
        ub |-> {}, fresh |-> FALSE, result |-> "ok", ret |-> <<>>,
           nomem |-> FALSE, failed |-> FALSE, code |-> "OK"]

Call(op, str, i, size, req, M, R) ==
    [op |-> op, str |-> str, i |-> i, size |-> size,
     req |-> IF R.result = "ok" THEN req ELSE 0,
     result |-> R.result, ub |-> R.ub, fresh |-> R.fresh, ret |-> R.ret,
     failed |-> R.failed,
     pre_len |-> M.len, pre_content |-> ContentOf(M), pre_mode |-> M.mode,
     pre_capacity |-> CapacityOf(M), pre_data |-> M.data,
     pre_hstate |-> M.hstate, pre_reserved_exp |-> M.reserved_exp,
     pre_size_exp |-> M.size_exp]

Install(R) ==
    /\ sso_buffer' = R.sso_buffer
    /\ heap' = R.heap
    /\ hstate' = R.hstate
    /\ data' = R.data
    /\ len' = R.len
    /\ mode' = R.mode
    /\ reserved_exp' = R.reserved_exp
    /\ size_exp' = R.size_exp
    /\ actual_size_exp' = R.actual_size_exp
    /\ leaked' = R.leaked

\* no Reference has been created
NoRef == [live |-> FALSE, i |-> 0, len |-> 0]

\* no String has been constructed from this one
NoCopy == [live |-> FALSE, shares |-> FALSE, M |-> Raw(NUL)]

Commit(c, R, pin) ==
    /\ Install(R)
    /\ last' = c
    /\ nops' = nops + 1
    /\ smallOnly' = (smallOnly /\ c.req <= SSO_SIZE)
    /\ allocated' = (allocated \/ R.fresh)
    /\ pinned' = pin
    /\ UNCHANGED <<ref, copy>>

\* RefSubstr / Ref has returned the Reference R.ret
CommitRef(c, R) ==
    /\ Install(R)
    /\ last' = c
    /\ smallOnly' = smallOnly
    /\ allocated' = allocated
    /\ pinned' = pinned
    /\ UNCHANGED copy
    /\ IF R.result = "ok"
       THEN ref' = [live |-> TRUE, i |-> R.ret.i, len |-> R.ret.len]
            /\ nops' = nops
       ELSE UNCHANGED ref /\ nops' = nops + 1

\* the variables when the constructor call c has returned R
Constructed(c, R) ==
    /\ sso_buffer = R.sso_buffer
    /\ heap = R.heap
    /\ hstate = R.hstate
    /\ data = R.data
    /\ len = R.len
    /\ mode = R.mode
    /\ reserved_exp = R.reserved_exp
    /\ size_exp = R.size_exp
    /\ actual_size_exp = R.actual_size_exp
    /\ leaked = R.leaked
    /\ last = c
    /\ nops = 0
    /\ smallOnly = (c.req <= SSO_SIZE)
    /\ allocated = R.fresh
    /\ pinned = {}
    /\ ref = NoRef
    /\ copy = NoCopy

\* nothing more is called on a String that wrote through _data = NULL
Callable == nops < MaxOps /\ len >= 0 /\ len <= MaxLen /\ data # "null"

----------------------------------------------------------------------------
(* Construction and the calls *)

\* String(const char* str, std::size_t size)
Init ==
    \E a \in CtorArgs, g \in Garbage :
      LET M == Raw(g)
          R == StringAppend(M, a[1], a[2], g, FALSE)
          c == Call("String", a[1], 0, a[2], Min(Len(a[1]), a[2]) + 1, M, R)
      IN  Constructed(c, R)

DoAppend ==
    /\ Callable
    /\ \E a \in AppendArgs, g \in Garbage, k \in Clobber :
         \E R \in {StringAppend(Str, a[1], a[2], g, k)} :
             Commit(Call("Append", a[1], 0, a[2],
                         Min(Len(a[1]), a[2]) + len + 1, Str, R), R, {})

DoInsert ==
    /\ Callable
    /\ \E a \in InsertArgs, g \in Garbage, k \in Clobber :
         \E R \in {Insert(Str, a[1], a[2], a[3], g, k)} :
             Commit(Call("Insert", a[1], a[2], a[3],
                         Min(Len(a[1]), a[3]) + len + 1, Str, R), R, {})

DoErase ==
    /\ Callable
    /\ \E a \in EraseArgs, g \in Garbage, k \in Clobber :
         \E R \in {Erase(Str, a[1], a[2], g, k)} :
             Commit(Call("Erase", <<>>, a[1], a[2],
                         len - Min(len - a[1], a[2]), Str, R), R, pinned)

DoResizeChar ==
    /\ Callable
    /\ \E size \in ResizeSizes, g \in Garbage, k \in Clobber :
         \E R \in {ResizeChar(Str, size, 32, g, k)} :
             Commit(Call("ResizeChar", <<32>>, 0, size, size + 1, Str, R), R, {})

DoResizeStr ==
    /\ Callable
    /\ \E a \in ResizeArgs, g \in Garbage, k \in Clobber :
         \E R \in {ResizeStr(Str, a[1], a[2], g, k)} :
             Commit(Call("ResizeStr", a[2], 0, a[1], a[1] + 1, Str, R), R, {})

DoReserve ==
    /\ Callable
    /\ \E size \in ReserveSizes, g \in Garbage, k \in Clobber :
         \E R \in {Reserve(Str, size, g, k)} :
             Commit(Call("Reserve", <<>>, 0, size, size, Str, R), R, {size})

Next ==
    \/ DoAppend
    \/ DoInsert
    \/ DoErase
    \/ DoResizeChar
    \/ DoResizeStr
    \/ DoReserve

Spec == Init /\ [][Next]_vars

----------------------------------------------------------------------------
(* Strazzle::String with a Reference into itself *)

DoSubstr ==
    /\ Callable
    /\ \E a \in SubstrArgs, g \in Garbage :
         \E R \in {Substr(Str, a[1], a[2], g)} :
             Commit(Call("Substr", <<>>, a[1], a[2], 0, Str, R), R, {})

DoRefSubstr ==
    /\ Callable
    /\ ~ref.live
    /\ \E a \in SubstrArgs :
         \E R \in {RefSubstr(Str, a[1], a[2])} :
             CommitRef(Call("RefSubstr", <<>>, a[1], a[2], 0, Str, R), R)

DoAppendRef ==
    /\ Callable
    /\ ref.live
    /\ \E size \in AppendRefSizes, g \in Garbage, k \in Clobber :
         \E R \in {AppendRef(Str, ref, size, g, k)} :
             Commit(Call("AppendRef", <<>>, 0, size,
                         Min(ref.len, size) + len + 1, Str, R), R, {})

DoInsertRef ==
    /\ Callable
    /\ ref.live
    /\ \E a \in InsertRefArgs, g \in Garbage, k \in Clobber :
         \E R \in {InsertRef(Str, ref, a[1], a[2], g, k)} :
             Commit(Call("InsertRef", <<>>, a[1], a[2],
                         Min(ref.len, a[2]) + len + 1, Str, R), R, {})

NextRef ==
    \/ DoSubstr
    \/ DoRefSubstr
    \/ DoAppendRef
    \/ DoInsertRef
    \/ DoErase

SpecRef == Init /\ [][NextRef]_vars

----------------------------------------------------------------------------
(* BaseString<char>: construction and the calls *)

InitBase ==
    \E a \in CtorArgs, g \in Garbage :
      LET R == BaseCtor(a[1], a[2], g)
          c == Call("String", a[1], 0, a[2], Min(Len(a[1]), a[2]) + 1, RawBase, R)
      IN  Constructed(c, R)

DoBaseAppend ==
    /\ Callable
    /\ \E a \in AppendArgs, g \in Garbage :
         \E R \in {BaseAppend(Str, a[1], a[2], g)} :
             Commit(Call("Append", a[1], 0, a[2],
                         Min(Len(a[1]), a[2]) + len + 1, Str, R), R, {})

DoBaseInsert ==
    /\ Callable
    /\ \E a \in BaseInsertArgs, g \in Garbage :
         \E R \in {BaseInsert(Str, a[1], a[2], a[3], g)} :
             Commit(Call("Insert", a[2], a[1], a[3],
                         Min(Len(a[2]), a[3]) + len + 1, Str, R), R, {})

DoBaseErase ==
    /\ Callable
    /\ \E a \in BaseEraseArgs, g \in Garbage :
         \E R \in {BaseErase(Str, a[1], a[2], g)} :
             Commit(Call("Erase", <<>>, a[1], a[2],
                         len - Min(len - a[1], a[2]) + 1, Str, R), R, {})

DoBaseResize ==
    /\ Callable
    /\ \E a \in BaseResizeArgs, g \in Garbage :
         \E R \in {BaseResize(Str, a[1], a[2], g)} :
             Commit(Call("ResizeStr", a[2], 0, a[1], a[1] + 1, Str, R), R, {})

DoBaseRef ==
    /\ Callable
    /\ ~ref.live
    /\ \E a \in SubstrArgs :
         \E R \in {BaseRef(Str, a[1], a[2])} :
             CommitRef(Call("RefSubstr", <<>>, a[1], a[2], 0, Str, R), R)

DoBaseSubstr ==
    /\ Callable
    /\ \E a \in SubstrArgs, g \in Garbage :
         \E R \in {BaseSubstr(Str, a[1], a[2], g)} :
             Commit(Call("Substr", <<>>, a[1], a[2], 0, Str, R), R, {})

NextBase ==
    \/ DoBaseRef
    \/ DoBaseSubstr
    \/ DoBaseAppend
    \/ DoBaseInsert
    \/ DoBaseErase
    \/ DoBaseResize

SpecBase == InitBase /\ [][NextBase]_vars

----------------------------------------------------------------------------
(* The calls when the allocator has no memory left: malloc returns NULL,    *)
(* new[] throws std::bad_alloc.  An action is the call in which an          *)
(* allocation was tried.                                                    *)

\* the object when every allocation of the coming call fails
StrNoMem == [Str EXCEPT !.nomem = TRUE]

DoAppendNoMem ==
    /\ Callable
    /\ \E a \in AppendArgs, g \in Garbage, k \in Clobber :
         \E R \in {StringAppend(StrNoMem, a[1], a[2], g, k)} :
             /\ R.failed
             /\ Commit(Call("Append", a[1], 0, a[2],
                            Min(Len(a[1]), a[2]) + len + 1, Str, R), R, {})

DoInsertNoMem ==
    /\ Callable
    /\ \E a \in InsertArgs, g \in Garbage, k \in Clobber :
         \E R \in {Insert(StrNoMem, a[1], a[2], a[3], g, k)} :
             /\ R.failed
             /\ Commit(Call("Insert", a[1], a[2], a[3],
                            Min(Len(a[1]), a[3]) + len + 1, Str, R), R, {})

DoEraseNoMem ==
    /\ Callable
    /\ \E a \in EraseArgs, g \in Garbage, k \in Clobber :
         \E R \in {Erase(StrNoMem, a[1], a[2], g, k)} :
             /\ R.failed
             /\ Commit(Call("Erase", <<>>, a[1], a[2],
                            len - Min(len - a[1], a[2]), Str, R), R, pinned)

DoResizeNoMem ==
    /\ Callable
    /\ \E size \in ResizeSizes, g \in Garbage, k \in Clobber :
         \E R \in {ResizeChar(StrNoMem, size, 32, g, k)} :
             /\ R.failed
             /\ Commit(Call("ResizeChar", <<32>>, 0, size, size + 1, Str, R), R, {})

DoReserveNoMem ==
    /\ Callable
    /\ \E size \in ReserveSizes, g \in Garbage, k \in Clobber :
         \E R \in {Reserve(StrNoMem, size, g, k)} :
             /\ R.failed
             /\ Commit(Call("Reserve", <<>>, 0, size, size, Str, R), R, {size})

NextNoMem ==
    \/ DoAppend
    \/ DoErase
    \/ DoAppendNoMem
    \/ DoInsertNoMem
    \/ DoEraseNoMem
    \/ DoResizeNoMem
    \/ DoReserveNoMem

SpecNoMem == Init /\ [][NextNoMem]_vars

DoBaseAppendNoMem ==
    /\ Callable
    /\ \E a \in AppendArgs, g \in Garbage :
         \E R \in {BaseAppend(StrNoMem, a[1], a[2], g)} :
             /\ R.failed
             /\ Commit(Call("Append", a[1], 0, a[2],
                            Min(Len(a[1]), a[2]) + len + 1, Str, R),
                       [R EXCEPT !.nomem = FALSE], {})

DoBaseInsertNoMem ==
    /\ Callable
    /\ \E a \in BaseInsertArgs, g \in Garbage :
         \E R \in {BaseInsert(StrNoMem, a[1], a[2], a[3], g)} :
             /\ R.failed
             /\ Commit(Call("Insert", a[2], a[1], a[3],
                            Min(Len(a[2]), a[3]) + len + 1, Str, R),
                       [R EXCEPT !.nomem = FALSE], {})

DoBaseEraseNoMem ==
    /\ Callable
    /\ \E a \in BaseEraseArgs, g \in Garbage :
         \E R \in {BaseErase(StrNoMem, a[1], a[2], g)} :
             /\ R.failed
             /\ Commit(Call("Erase", <<>>, a[1], a[2],
                            len - Min(len - a[1], a[2]) + 1, Str, R),
                       [R EXCEPT !.nomem = FALSE], {})

DoBaseResizeNoMem ==
    /\ Callable
    /\ \E a \in BaseResizeArgs, g \in Garbage :
         \E R \in {BaseResize(StrNoMem, a[1], a[2], g)} :
             /\ R.failed
             /\ Commit(Call("ResizeStr", a[2], 0, a[1], a[1] + 1, Str, R),
                       [R EXCEPT !.nomem = FALSE], {})

NextBaseNoMem ==
    \/ DoBaseAppend
    \/ DoBaseErase
    \/ DoBaseResize
    \/ DoBaseAppendNoMem
    \/ DoBaseInsertNoMem
    \/ DoBaseEraseNoMem
    \/ DoBaseResizeNoMem

SpecBaseNoMem == InitBase /\ [][NextBaseNoMem]_vars

----------------------------------------------------------------------------
(* The exponent functions over the whole machine word.  A std::size_t is    *)
(* the function of its 64 bits, bit 0 the lowest, so that sizes up to       *)
(* 2^64 - 1 are held exactly.  SpecExp draws a size and applies the         *)
(* functions to it.                                                         *)

WORD_BITS == 64

Bit == 0 .. WORD_BITS - 1

Zero64 == [b \in Bit |-> 0]

\* 1UL << e for a shift count below the width
Pow64(e) == [b \in Bit |-> IF b = e THEN 1 ELSE 0]

\* the index of the highest set bit of a word that is not zero
TopBit(w) == CHOOSE b \in Bit : w[b] = 1 /\ \A c \in Bit : c > b => w[c] = 0

\* the index of the lowest set bit of a word that is not zero
LowBit(w) == CHOOSE b \in Bit : w[b] = 1 /\ \A c \in Bit : c < b => w[c] = 0

\* x - 1 in unsigned arithmetic: 0 - 1 wraps to 2^64 - 1
Dec64(w) ==
    IF w = Zero64 THEN [b \in Bit |-> 1]
    ELSE LET t == LowBit(w)
         IN  [b \in Bit |-> IF b < t THEN 1 ELSE IF b = t THEN 0 ELSE w[b]]

\* x + 1 in unsigned arithmetic, for the inputs
Inc64(w) ==
    IF \A b \in Bit : w[b] = 1 THEN Zero64
    ELSE LET t == CHOOSE b \in Bit : w[b] = 0 /\ \A c \in Bit : c < b => w[c] = 1
         IN  [b \in Bit |-> IF b < t THEN 0 ELSE IF b = t THEN 1 ELSE w[b]]

\* _clz, StringAllocator::clz
Clz64(w) == IF w # Zero64 THEN (WORD_BITS - 1) - TopBit(w) ELSE 64

\* _GetExponent
GetExponent64(w) ==
    LET clz_x == Clz64(w)
    IN  IF (clz_x # Clz64(Dec64(w))) /\ (w # Zero64) THEN 63 - clz_x ELSE 64 - clz_x

\* StringAllocator::NextExponent
NextExponent64(w) == 64 - Clz64(w)

\* what 1UL << exp can be when exp is not below the width of the type: the
\* shift instruction takes the count modulo 64, a folded constant is 0
ShiftUB == {"wrapped", "zero"}

\* _ExpToNum
ExpToNum64(exp, u) ==
    IF exp # 0
    THEN IF exp < WORD_BITS THEN Pow64(exp)
         ELSE IF u = "wrapped" THEN Pow64(exp % WORD_BITS) ELSE Zero64
    ELSE Zero64

\* the sizes the functions are applied to: 0, 2^64 - 1, and every power of
\* two with its two neighbours
Sizes ==
    {Zero64, Dec64(Zero64)}
    \cup {Pow64(k) : k \in Bit}
    \cup {Inc64(Pow64(k)) : k \in Bit}
    \cup {Dec64(Pow64(k)) : k \in Bit}

\* no String is involved
NoString ==
    /\ sso_buffer = <<>>
    /\ heap = <<>>
    /\ hstate = "none"
    /\ data = "sso"
    /\ len = 0
    /\ mode = "SMALL_STRING"
    /\ reserved_exp = 0
    /\ size_exp = 0
    /\ actual_size_exp = 0
    /\ leaked = 0
    /\ nops = 0
    /\ smallOnly = TRUE
    /\ allocated = FALSE
    /\ pinned = {}
    /\ ref = NoRef
    /\ copy = NoCopy

\* the call record of the exponent functions: the size first given, the
\* argument and the value of the last call, and the exponents returned so far
InitExp ==
    /\ NoString
    /\ \E w \in Sizes :
         last = [op |-> "size", x |-> w, arg |-> w, out |-> w, ub |-> {}, exps |-> <<>>]

Applied(next) ==
    /\ last' = next
    /\ UNCHANGED <<sso_buffer, heap, hstate, data, len, mode, reserved_exp,
                   size_exp, actual_size_exp, leaked, nops, smallOnly,
                   allocated, pinned, ref, copy>>

\* _GetExponent(size), and _GetExponent of what _ExpToNum returned
DoGetExponent ==
    /\ last.op \in {"size", "_ExpToNum"}
    /\ Applied([last EXCEPT !.op = "_GetExponent", !.arg = last.out,
                            !.out = GetExponent64(last.out),
                            !.exps = Append(@, GetExponent64(last.out))])

\* StringAllocator::NextExponent(size)
DoNextExponent ==
    /\ last.op = "size"
    /\ Applied([last EXCEPT !.op = "NextExponent", !.arg = last.out,
                            !.out = NextExponent64(last.out),
                            !.exps = Append(@, NextExponent64(last.out))])

\* _ExpToNum of the exponent _GetExponent(size) returned
DoExpToNum ==
    /\ last.op = "_GetExponent"
    /\ Len(last.exps) = 1
    /\ \E u \in ShiftUB :
         Applied([last EXCEPT !.op = "_ExpToNum", !.arg = last.out,
                             !.out = ExpToNum64(last.out, u),
                             !.ub = IF last.out >= WORD_BITS THEN {"shift"} ELSE {}])

NextExp ==
    \/ DoGetExponent
    \/ DoNextExponent
    \/ DoExpToNum

SpecExp == InitExp /\ [][NextExp]_vars

----------------------------------------------------------------------------
(* Append after Append.  The record of an Append also keeps what the call   *)
(* before it was, so that two Appends in a row can be told from the String  *)
(* they started on.  An Append may follow the last call the bound admits.   *)

\* what is kept of the call before
Brief(c) == [op |-> c.op, str |-> c.str, size |-> c.size, result |-> c.result,
             ub |-> c.ub, pre_len |-> c.pre_len, pre_content |-> c.pre_content]

DoAppendNext ==
    /\ nops <= MaxOps /\ len >= 0 /\ len <= MaxLen /\ data # "null"
    /\ \E a \in AppendArgs, g \in Garbage, k \in Clobber :
         \E R \in {StringAppend(Str, a[1], a[2], g, k)} :
             Commit(Call("Append", a[1], 0, a[2],
                         Min(Len(a[1]), a[2]) + len + 1, Str, R)
                      @@ [before |-> Brief(last)], R, {})

NextAppend ==
    \/ DoAppendNext
    \/ DoErase

SpecAppend == Init /\ [][NextAppend]_vars

----------------------------------------------------------------------------
(* Calls that are compared with another call.  Insert at the end is         *)
(* recorded with what Append of the same bytes leaves on the same String in *)
(* the same memory; Insert of the bytes the call before erased is recorded  *)
(* with that call.                                                          *)

\* what a String shows of itself
Shown(M) == [content |-> ContentOf(M), len |-> M.len, mode |-> M.mode,
             capacity |-> CapacityOf(M), result |-> M.result]

\* the C string a byte sequence is when passed as const char*
UpToNul(b) ==
    LET nuls == { j \in 1..Len(b) : b[j] = NUL }
    IN  IF nuls = {} THEN b
        ELSE SubSeq(b, 1, (CHOOSE j \in nuls : \A q \in nuls : j <= q) - 1)

\* Insert(str, Len(), size)
DoInsertAtEnd ==
    /\ Callable
    /\ \E a \in AppendArgs, g \in Garbage, k \in Clobber :
         \E R \in {Insert(Str, a[1], len, a[2], g, k)} :
             Commit(Call("Insert", a[1], len, a[2],
                         Min(Len(a[1]), a[2]) + len + 1, Str, R)
                      @@ [twin |-> Shown(StringAppend(Str, a[1], a[2], g, k))],
                    R, {})

\* Insert(b, i) after Erase(i, k) removed the bytes b
DoReinsert ==
    /\ Callable
    /\ last.op = "Erase" /\ last.result = "ok"
    /\ \E g \in Garbage, k \in Clobber :
         LET n == Min(last.size, last.pre_len - last.i)
             b == UpToNul(SubSeq(last.pre_content, last.i + 1, last.i + n))
         IN  \E R \in {Insert(Str, b, last.i, SIZE_MAX, g, k)} :
                 Commit(Call("Insert", b, last.i, SIZE_MAX, Len(b) + len + 1, Str, R)
                          @@ [before |-> Brief(last)], R, {})

NextRel ==
    \/ DoInsertAtEnd
    \/ DoReinsert
    \/ DoErase
    \/ DoAppend

SpecRel == Init /\ [][NextRel]_vars

----------------------------------------------------------------------------
(* A second String constructed from the first by String(const String&,      *)
(* std::size_t).  The variables are the source; `copy` holds the new        *)
(* String.  copy.shares says that the copy's _data and the source's _data   *)
(* are the same heap block: malloc may hand the copy the block the source   *)
(* freed and still points to.  The cells of a shared block are `heap`.      *)

\* a String record without what the last call noted in it
Clean(M) == [M EXCEPT !.ub = {}, !.fresh = FALSE, !.result = "ok", !.ret = <<>>,
                      !.nomem = FALSE, !.failed = FALSE]

\* String(const String& str, std::size_t size): Append(str._data, size) on a
\* new object; Append takes strlen(str._data)
CopyCtor(S, size, g) ==
    LET n   == Min(S.len, size)
        str == ReadCells(S, 0, StrlenAt(S, 0), g)
    IN  Flag(StringAppend(Raw(g), str, n, g, FALSE), StrlenUB(S, 0))

\* the copy with the cells its _data points to
CopyView ==
    IF copy.shares THEN [copy.M EXCEPT !.heap = heap, !.hstate = hstate]
    ELSE copy.M

CopySizes == {2, SIZE_MAX}

CopyClobber == IF CopyView.data = "heap" THEN BOOLEAN ELSE {FALSE}

\* malloc may return the block the source freed
Reuse == IF Dangling(Str) THEN BOOLEAN ELSE {FALSE}

\* what the call was made on, and what the other String showed before it
Other(on) ==
    [on |-> on,
     other_pre |-> IF on = "copy"
                   THEN [live |-> TRUE, content |-> ContentOf(Str), len |-> len]
                   ELSE [live |-> copy.live, content |-> ContentOf(CopyView),
                         len |-> copy.M.len]]

DoCopy ==
    /\ Callable
    /\ ~copy.live
    /\ \E size \in CopySizes, g \in Garbage :
         \E R \in {CopyCtor(Str, size, g)} :
             /\ copy' = [live |-> TRUE, shares |-> FALSE, M |-> Clean(R)]
             /\ last' = Call("Copy", <<>>, 0, size, 0, Str, R) @@ Other("copy")
             /\ UNCHANGED <<sso_buffer, heap, hstate, data, len, mode,
                            reserved_exp, size_exp, actual_size_exp, leaked,
                            nops, smallOnly, allocated, pinned, ref>>

\* a call on the copy has returned R
CommitCopy(c, R, reuse) ==
    LET takes == /\ ~copy.shares /\ reuse /\ R.fresh /\ Dangling(Str)
                 /\ Len(R.heap) = Len(heap)
        keeps == copy.shares /\ ~R.fresh
    IN  /\ copy' = [live |-> TRUE, shares |-> takes \/ keeps, M |-> Clean(R)]
        /\ heap' = IF takes \/ keeps THEN R.heap ELSE heap
        /\ hstate' = IF takes THEN "live"
                     ELSE IF keeps THEN R.hstate
                     ELSE IF copy.shares THEN "freed" ELSE hstate
        /\ last' = c
        /\ nops' = nops + 1
        /\ UNCHANGED <<sso_buffer, data, len, mode, reserved_exp, size_exp,
                       actual_size_exp, leaked, smallOnly, allocated, pinned, ref>>

CopyCallable ==
    /\ copy.live /\ nops < MaxOps
    /\ copy.M.len >= 0 /\ copy.M.len <= MaxLen /\ len >= 0 /\ len <= MaxLen

DoCopyAppend ==
    /\ CopyCallable
    /\ \E a \in AppendArgs, g \in Garbage, k \in CopyClobber, reuse \in Reuse :
         \E R \in {StringAppend(CopyView, a[1], a[2], g, k)} :
             CommitCopy(Call("Append", a[1], 0, a[2], 0, CopyView, R)
                          @@ Other("copy"), R, reuse)

DoCopyErase ==
    /\ CopyCallable
    /\ \E a \in EraseArgs, g \in Garbage, k \in CopyClobber, reuse \in Reuse :
         \E R \in {Erase(CopyView, a[1], a[2], g, k)} :
             CommitCopy(Call("Erase", <<>>, a[1], a[2], 0, CopyView, R)
                          @@ Other("copy"), R, reuse)

DoSrcAppend ==
    /\ Callable
    /\ \E a \in AppendArgs, g \in Garbage, k \in Clobber :
         \E R \in {StringAppend(Str, a[1], a[2], g, k)} :
             Commit(Call("Append", a[1], 0, a[2],
                         Min(Len(a[1]), a[2]) + len + 1, Str, R)
                      @@ Other("source"), R, {})

DoSrcErase ==
    /\ Callable
    /\ \E a \in EraseArgs, g \in Garbage, k \in Clobber :
         \E R \in {Erase(Str, a[1], a[2], g, k)} :
             Commit(Call("Erase", <<>>, a[1], a[2],
                         len - Min(len - a[1], a[2]), Str, R)
                      @@ Other("source"), R, pinned)

NextCopy ==
    \/ DoCopy
    \/ DoCopyAppend
    \/ DoCopyErase
    \/ DoSrcAppend
    \/ DoSrcErase

SpecCopy == Init /\ [][NextCopy]_vars

----------------------------------------------------------------------------
(* String::Resize with a fill string, step by step: the call up to its      *)
(* while loop, one turn of the loop, and the return.                        *)
(* last.pc is where the call is, last.turn changes with every turn.         *)

FillSizes == { 0, 3, 20 }
\* fill, also the empty string
Fills == { <<>>, <<120, 121>>, <<120, 121, 122>> }

\* a call of Resize is inside its while loop
InFill == last.op = "ResizeFill" /\ last.pc = "loop"

\* the call has written R so far
FillStep(c, R, done) ==
    /\ Install(R)
    /\ last' = c
    /\ nops' = IF done THEN nops + 1 ELSE nops
    /\ allocated' = (allocated \/ R.fresh)
    /\ UNCHANGED <<smallOnly, pinned, ref, copy>>

\* ResizeAllocation(size + 1); if(size > _len) str_len = strlen(fill)
\* else { _len = size; _data[_len] = 0 }
DoFillBegin ==
    /\ Callable
    /\ ~InFill
    /\ \E size \in FillSizes, fill \in Fills, g \in Garbage, k \in Clobber :
         \E M1 \in {ResizeAllocation(Str, size + 1, g, k)} :
           IF size > M1.len
           THEN FillStep(Call("ResizeFill", fill, 0, size, size + 1, Str, M1)
                           @@ [pc |-> "loop", turn |-> FALSE], M1, FALSE)
           ELSE \E R \in {Terminate([M1 EXCEPT !.len = size])} :
                  FillStep(Call("ResizeFill", fill, 0, size, size + 1, Str, R)
                             @@ [pc |-> "done", turn |-> FALSE], R, TRUE)

\* while(_len < size) { memcpy(_data + _len, fill, ...); _len += str_len; }
DoFillTurn ==
    /\ InFill
    /\ len < last.size
    /\ LET str_len == Len(last.str)
           n       == IF len + str_len <= last.size THEN str_len
                      ELSE last.size - len
           W       == WriteCells(Str, len, SubSeq(last.str, 1, n))
           R       == [W EXCEPT !.len = @ + str_len]
       IN  FillStep([last EXCEPT !.turn = ~@, !.ub = @ \cup R.ub], R, FALSE)

\* the loop is left: _data[_len] = 0
DoFillEnd ==
    /\ InFill
    /\ ~(len < last.size)
    /\ \E R \in {Terminate(Str)} :
         FillStep([last EXCEPT !.pc = "done", !.ub = @ \cup R.ub], R, TRUE)

NextFill ==
    \/ DoFillBegin
    \/ DoFillTurn
    \/ DoFillEnd

\* a call that has begun goes on running
SpecFill ==
    Init /\ [][NextFill]_vars /\ WF_vars(DoFillTurn) /\ WF_vars(DoFillEnd)

----------------------------------------------------------------------------
(* A Reference into this String used on another String: bar.Append(ref) and *)
(* bar.Insert(ref, i), as in Examples/BaseString/BaseString.cpp.  The       *)
(* variables are the base; `copy` holds bar when the call has returned.     *)

\* bar before the call
BarTexts == { <<>>, <<48, 49>>, Text(47, 15) }
\* <<i, size>> of bar.Insert(ref, i, size)
BarInsertArgs == { <<0, SIZE_MAX>>, <<1, 1>> }

Bar(t, g) == Clean(StringAppend(Raw(g), t, SIZE_MAX, g, FALSE))

\* B.Append(ref, size): Append(ref._base._data + ref._i, size), which takes
\* strlen of that pointer
AppendRefOf(S, r, B, size, g) ==
    IF ~RefInBounds(S, r) THEN [B EXCEPT !.result = "out_of_range"]
    ELSE LET str == ReadCells(S, r.i, StrlenAt(S, r.i), g)
         IN  Flag(StringAppend(B, str, Min(r.len, size), g, FALSE),
                  StrlenUB(S, r.i))

\* B.Insert(ref, i, size)
InsertRefOf(S, r, B, i, size, g) ==
    IF ~RefInBounds(S, r) THEN [B EXCEPT !.result = "out_of_range"]
    ELSE LET str == ReadCells(S, r.i, StrlenAt(S, r.i), g)
             R   == Insert(B, str, i, Min(r.len, size), g, FALSE)
         IN  IF R.result # "ok" THEN R ELSE Flag(R, StrlenUB(S, r.i))

\* a call on bar has returned R; the base is not written
CommitBar(c, R) ==
    /\ copy' = [live |-> TRUE, shares |-> FALSE, M |-> Clean(R)]
    /\ last' = c
    /\ nops' = nops + 1
    /\ UNCHANGED <<sso_buffer, heap, hstate, data, len, mode, reserved_exp,
                   size_exp, actual_size_exp, leaked, smallOnly, allocated,
                   pinned, ref>>

DoBarAppendRef ==
    /\ Callable
    /\ ref.live
    /\ \E t \in BarTexts, size \in AppendRefSizes, g \in Garbage :
         \E B \in {Bar(t, g)} :
           \E R \in {AppendRefOf(Str, ref, B, size, g)} :
             CommitBar(Call("BarAppendRef", <<>>, 0, size, 0, B, R), R)

DoBarInsertRef ==
    /\ Callable
    /\ ref.live
    /\ \E t \in BarTexts, a \in BarInsertArgs, g \in Garbage :
         \E B \in {Bar(t, g)} :
           \E R \in {InsertRefOf(Str, ref, B, a[1], a[2], g)} :
             CommitBar(Call("BarInsertRef", <<>>, a[1], a[2], 0, B, R), R)

NextBar ==
    \/ DoRefSubstr
    \/ DoBarAppendRef
    \/ DoBarInsertRef
    \/ DoErase
    \/ DoAppend
    \/ DoReserve

SpecBar == Init /\ [][NextBar]_vars

----------------------------------------------------------------------------
(* Construction from a byte pointer, for every length of the source up to   *)
(* MaxCtorLen and sizes on both sides of it.  SpecCtor draws the arguments  *)
(* and constructs a String or a BaseString<char> from them.                 *)

MaxCtorLen == 20

CtorSizes == {0, 1, 2, 3, SSO_SIZE - 1, SSO_SIZE, SSO_SIZE + 1, SIZE_MAX}

InitCtor ==
    /\ NoString
    /\ \E n \in 0..MaxCtorLen, size \in CtorSizes :
         last = [op |-> "args", str |-> Upper(n), size |-> size]

\* the constructor call c has returned the object R
Construct(c, R) ==
    /\ Install(R)
    /\ last' = c
    /\ smallOnly' = (c.req <= SSO_SIZE)
    /\ allocated' = R.fresh
    /\ UNCHANGED <<nops, pinned, ref, copy>>

\* String(const char* str, std::size_t size)
DoStringCtor ==
    /\ last.op = "args"
    /\ \E g \in Garbage :
         LET M == Raw(g)
             R == StringAppend(M, last.str, last.size, g, FALSE)
         IN  Construct(Call("String", last.str, 0, last.size,
                            Min(Len(last.str), last.size) + 1, M, R), R)

\* BaseString(const CharT* str, std::size_t size)
DoBaseCtor ==
    /\ last.op = "args"
    /\ \E g \in Garbage :
         LET R == BaseCtor(last.str, last.size, g)
         IN  Construct(Call("BaseString", last.str, 0, last.size,
                            Min(Len(last.str), last.size) + 1, RawBase, R), R)

NextCtor ==
    \/ DoStringCtor
    \/ DoBaseCtor

SpecCtor == InitCtor /\ [][NextCtor]_vars

----------------------------------------------------------------------------
(* StringAllocator<char> on its own: the calls of its public interface in   *)
(* any order, and a program that writes through alloc.c.                    *)

MaxAllocOps == 3

AllocSizes == {0, 1, 7, 8, 16, 17}
AllocExps  == {0, 2, 5}

\* the record of a call of the allocator: also the code it returned, the
\* exponent it was given, the block and actual_size_exp before it, and the
\* call before it
AllocCall(op, size, exp, R) ==
    Call(op, <<>>, 0, size, 0, Str, R)
      @@ [code |-> R.code, exp |-> exp, pre_heap |-> heap,
          pre_actual_size_exp |-> actual_size_exp, before |-> Brief(last)]

\* StringAllocator(): c = nullptr, size_exp = 0
InitAlloc ==
    /\ sso_buffer = <<>>
    /\ heap = <<>>
    /\ hstate = "none"
    /\ data = "heap"
    /\ len = 0
    /\ mode = "NONE"
    /\ reserved_exp = 0
    /\ size_exp = 0
    /\ actual_size_exp = 0
    /\ leaked = 0
    /\ nops = 0
    /\ smallOnly = TRUE
    /\ allocated = FALSE
    /\ pinned = {}
    /\ ref = NoRef
    /\ copy = NoCopy
    /\ last = Call("StringAllocator", <<>>, 0, 0, 0, RawBase, RawBase)

AllocCallable == nops < MaxAllocOps

DoAllocResize ==
    /\ AllocCallable
    /\ \E size \in AllocSizes, g \in Garbage :
         \E R \in {AllocResize(Str, size, g)} :
             Commit(AllocCall("Resize", size, 0, R), R, {})

DoAllocShrink ==
    /\ AllocCallable
    /\ \E size \in AllocSizes, g \in Garbage :
         \E R \in {AllocShrink(Str, size, g)} :
             Commit(AllocCall("Shrink", size, 0, R), R, {})

DoAllocRealloc ==
    /\ AllocCallable
    /\ \E size \in AllocSizes, g \in Garbage :
         \E R \in {AllocRealloc(Str, size, g)} :
             Commit(AllocCall("Realloc", size, NextExponent(size), R), R, {})

DoReallocToExp ==
    /\ AllocCallable
    /\ \E e \in AllocExps, g \in Garbage :
         \E R \in {ReallocToExp(Str, e, g)} :
             Commit(AllocCall("ReallocToExp", 2 ^ e, e, R), R, {})

DoAllocFree ==
    /\ AllocCallable
    /\ \E R \in {AllocFree(Str)} :
         Commit(AllocCall("Free", 0, 0, R), R, {})

\* the owner of the allocator fills the block through alloc.c
DoAllocFill ==
    /\ hstate = "live"
    /\ heap # Upper(Len(heap))
    /\ heap' = Upper(Len(heap))
    /\ last' = AllocCall("Fill", Len(heap), 0, Str)
    /\ UNCHANGED <<sso_buffer, hstate, data, len, mode, reserved_exp, size_exp,
                   actual_size_exp, leaked, nops, smallOnly, allocated, pinned,
                   ref, copy>>

NextAlloc ==
    \/ DoAllocResize
    \/ DoAllocShrink
    \/ DoAllocRealloc
    \/ DoReallocToExp
    \/ DoAllocFree
    \/ DoAllocFill

SpecAlloc == InitAlloc /\ [][NextAlloc]_vars

\* the same calls with operator new[] failing inside ReallocToExp; a call
\* that allocates nothing is the call of SpecAlloc
DoAllocResizeNoMem ==
    /\ AllocCallable
    /\ \E size \in AllocSizes, g \in Garbage :
         \E R \in {AllocResize(StrNoMem, size, g)} :
             /\ R.failed
             /\ Commit(AllocCall("Resize", size, 0, R),
                       [R EXCEPT !.nomem = FALSE], {})

DoAllocShrinkNoMem ==
    /\ AllocCallable
    /\ \E size \in AllocSizes, g \in Garbage :
         \E R \in {AllocShrink(StrNoMem, size, g)} :
             /\ R.failed
             /\ Commit(AllocCall("Shrink", size, 0, R),
                       [R EXCEPT !.nomem = FALSE], {})

DoAllocReallocNoMem ==
    /\ AllocCallable
    /\ \E size \in AllocSizes, g \in Garbage :
         \E R \in {AllocRealloc(StrNoMem, size, g)} :
             /\ R.failed
             /\ Commit(AllocCall("Realloc", size, NextExponent(size), R),
                       [R EXCEPT !.nomem = FALSE], {})

DoReallocToExpNoMem ==
    /\ AllocCallable
    /\ \E e \in AllocExps, g \in Garbage :
         \E R \in {ReallocToExp(StrNoMem, e, g)} :
             /\ R.failed
             /\ Commit(AllocCall("ReallocToExp", 2 ^ e, e, R),
                       [R EXCEPT !.nomem = FALSE], {})

NextAllocNoMem ==
    \/ DoAllocResize
    \/ DoAllocShrink
    \/ DoAllocRealloc
    \/ DoReallocToExp
    \/ DoAllocFill
    \/ DoAllocResizeNoMem
    \/ DoAllocShrinkNoMem
    \/ DoAllocReallocNoMem
    \/ DoReallocToExpNoMem

SpecAllocNoMem == InitAlloc /\ [][NextAllocNoMem]_vars

----------------------------------------------------------------------------
(* What the calls are meant to leave behind *)

Capacity == CapacityOf(Str)
Content  == ContentOf(Str)

Ok(op) == last.op = op /\ last.result = "ok"

\* the number of bytes a call takes from str under its size argument
Taken == Min(Len(last.str), last.size)

\* the number of bytes Erase(i, size) removes
Erased == Min(last.size, last.pre_len - last.i)

\* count bytes of fill, repeated and cut off
Repeated(fill, count) == [p \in 1..count |-> fill[((p - 1) % Len(fill)) + 1]]

Expected ==
    LET s == last.pre_content IN
    CASE last.op = "String" -> SubSeq(last.str, 1, Taken)
      [] last.op = "Append" -> s \o SubSeq(last.str, 1, Taken)
      [] last.op = "Insert" ->
           SubSeq(s, 1, last.i) \o SubSeq(last.str, 1, Taken)
             \o SubSeq(s, last.i + 1, Len(s))
      [] last.op = "Erase" ->
           SubSeq(s, 1, last.i) \o SubSeq(s, last.i + Erased + 1, Len(s))
      [] last.op \in {"ResizeChar", "ResizeStr"} ->
           IF last.size <= last.pre_len THEN SubSeq(s, 1, last.size)
           ELSE s \o Repeated(last.str, last.size - last.pre_len)
      [] OTHER -> s

\* Len() and Cstr() show exactly the expected bytes
AsExpected == len = Len(Expected) /\ Content = Expected

----------------------------------------------------------------------------
(* C1: after construction and after every call the capacity of the active  *)
(* buffer (16 in SMALL_STRING mode, the heap block's size in LARGE_STRING   *)
(* mode) is at least _len + 1, so the terminator at index _len is inside.   *)
C1_TerminatorInsideCapacity == Capacity >= len + 1

(* C2: a String in LARGE_STRING mode with _len >= 16 that Erase or Resize   *)
(* shrinks to a requested size below 16 is afterwards in SMALL_STRING mode, *)
(* _data is the inline buffer and holds the surviving bytes, the heap block *)
(* is freed, and Len()/Cstr() show the expected length and bytes.           *)
C2_HeapToInline ==
    (/\ last.op \in {"Erase", "ResizeChar", "ResizeStr"}
     /\ last.result = "ok"
     /\ last.pre_mode = "LARGE_STRING"
     /\ last.pre_len >= SSO_SIZE
     /\ last.req < SSO_SIZE)
    => (/\ mode = "SMALL_STRING"
        /\ data = "sso"
        /\ hstate = "freed"
        /\ AsExpected)

\* the String the call started from had room for its bytes and terminator
FittedBefore == last.pre_len < last.pre_capacity

\* the bytes the String had are still its first bytes
PrefixKept ==
    /\ len >= last.pre_len
    /\ Len(Content) >= last.pre_len
    /\ SubSeq(Content, 1, last.pre_len) = last.pre_content

(* C3: a call on a String in SMALL_STRING mode with _len < 16 that requests *)
(* a size above 16 leaves it in LARGE_STRING mode on a block malloc'ed by   *)
(* this call, of 2^GetExponent(requested size) bytes, whose first bytes are *)
(* the bytes the String had (Insert: the expected content), and an Append   *)
(* shows the expected length and content.                                   *)
C3_InlineToHeap ==
    (/\ last.result = "ok"
     /\ last.pre_mode = "SMALL_STRING"
     /\ last.pre_len < SSO_SIZE
     /\ last.req > SSO_SIZE)
    => (/\ mode = "LARGE_STRING"
        /\ data = "heap"
        /\ hstate = "live"
        /\ last.fresh
        /\ Len(heap) = 2 ^ GetExponent(last.req)
        /\ IF last.op = "Insert" THEN AsExpected ELSE PrefixKept
        /\ last.op = "Append" => AsExpected)

(* C4: as long as every requested size (and every Reserve) stayed at or     *)
(* below 16, the String is in SMALL_STRING mode on its inline buffer and    *)
(* malloc was never called.                                                 *)
C4_StaysInline ==
    smallOnly => (/\ mode = "SMALL_STRING"
                  /\ data = "sso"
                  /\ hstate = "none"
                  /\ ~allocated)

C4_Witness ==
    /\ smallOnly
    /\ nops >= 2
    /\ last.op = "Append"
    /\ last.req = SSO_SIZE
    /\ len = SSO_SIZE - 1

(* C5: Append(bytes, maxLen) on content s leaves s ++ bytes[0..k) and       *)
(* length len(s) + k, k = min(len(bytes), maxLen); stated for a String that  *)
(* had room for its bytes and terminator before the call.                   *)
C5_Append == (Ok("Append") /\ FittedBefore) => AsExpected

(* C6: Insert(bytes, index, maxLen) with index <= length leaves             *)
(* s[0..index) ++ bytes[0..k) ++ s[index..length), length len(s) + k; stated *)
(* for a String that had room for its bytes and terminator before the call. *)
C6_Insert == (Ok("Insert") /\ FittedBefore) => AsExpected

(* C7: Erase(index, maxLen) with index < length leaves                      *)
(* s[0..index) ++ s[index+k..length), length len(s) - k,                    *)
(* k = min(maxLen, length - index).                                         *)
C7_Erase == Ok("Erase") => AsExpected

(* C8: Resize(newSize, fill) with newSize > length and a non-empty fill     *)
(* keeps bytes [0, oldLength), sets the length to newSize and makes byte p  *)
(* of [oldLength, newSize) equal to fill[(p - oldLength) mod len(fill)].    *)
C8_ResizeFill ==
    (Ok("ResizeStr") /\ last.size > last.pre_len) => AsExpected

(* C9: Resize(n) with n <= length sets the length to n and keeps bytes      *)
(* [0, n).                                                                  *)
C9_ResizeTruncates ==
    (Ok("ResizeChar") /\ last.size <= last.pre_len) => AsExpected

(* C10: after Reserve(N) followed only by Erase calls the capacity is at    *)
(* least _ExpToNum(_GetExponent(N)).                                        *)
C10_ReservePinsCapacity ==
    \A N \in pinned : Capacity >= ExpToNum(GetExponent(N))

(* C11: Reserve(size) leaves _reserved_exp at the larger of its previous    *)
(* value and _GetExponent(size): a Reserve never lowers it.                 *)
C11_ReserveNeverLowers ==
    Ok("Reserve") => reserved_exp = (IF GetExponent(last.size) > last.pre_reserved_exp
                                     THEN GetExponent(last.size)
                                     ELSE last.pre_reserved_exp)

\* the call changed nothing the String shows or owns
Untouched ==
    /\ len = last.pre_len
    /\ Content = last.pre_content
    /\ mode = last.pre_mode
    /\ Capacity = last.pre_capacity
    /\ data = last.pre_data
    /\ hstate = last.pre_hstate

(* C13: Insert throws out_of_range exactly when index > length (index =     *)
(* length is accepted), and an Insert that threw left length, content, mode *)
(* and capacity as they were.                                               *)
C13_InsertBounds ==
    last.op = "Insert" =>
        /\ (last.result # "ok") <=> (last.i > last.pre_len)
        /\ (last.result # "ok") => Untouched

C13_Witness ==
    /\ last.op = "Insert"
    /\ last.result = "out_of_range"
    /\ last.i = last.pre_len + 1
    /\ last.pre_len > 0

(* C12: Append(ref) and Insert(ref, i) with a Reference whose _i + _len     *)
(* exceeds the base String's length throw out_of_range and leave length,    *)
(* content, mode and capacity as they were; a Reference within the bounds   *)
(* is accepted.                                                             *)
C12_StaleReferenceRefused ==
    last.op \in {"AppendRef", "InsertRef"} =>
        /\ ref.i + ref.len > last.pre_len
              => (last.result = "out_of_range" /\ Untouched)
        /\ (ref.i + ref.len <= last.pre_len
               /\ (last.op = "InsertRef" => last.i <= last.pre_len))
              => last.result = "ok"

C12_Witness ==
    /\ last.op = "AppendRef"
    /\ ref.live
    /\ ref.i <= last.pre_len
    /\ ref.i + ref.len > last.pre_len
    /\ last.result = "out_of_range"

(* C14: Erase, Substr and RefSubstr throw out_of_range exactly when         *)
(* index >= length (so always on an empty String), whatever the length      *)
(* argument, and a call that threw left the String as it was.               *)
C14_IndexBounds ==
    last.op \in {"Erase", "Substr", "RefSubstr"} =>
        /\ (last.result # "ok") <=> (last.i >= last.pre_len)
        /\ (last.result # "ok") => Untouched

C14_Witness ==
    /\ last.op = "Erase"
    /\ last.pre_len = 0
    /\ last.i = 0
    /\ last.result = "out_of_range"

\* the number of bytes Substr(i, size) and RefSubstr(i, size) cover
Covered == Min(last.size, last.pre_len - last.i)

(* C15: RefSubstr(index, maxLen) with index < length returns a Reference    *)
(* with offset index and length k = min(maxLen, length - index), so that    *)
(* offset + length <= length of the base; Substr(index, maxLen) returns a   *)
(* String holding exactly the k bytes from index; neither changes the base. *)
C15_SubstrRange ==
    /\ Ok("RefSubstr") =>
          /\ ref.live
          /\ ref.i = last.i
          /\ ref.len = Covered
          /\ ref.i + ref.len <= len
          /\ Untouched
    /\ Ok("Substr") =>
          /\ last.ret.len = Covered
          /\ last.ret.content
                = SubSeq(last.pre_content, last.i + 1, last.i + Covered)
          /\ Untouched

(* C16: when an allocation fails during Append, the failure is signalled to *)
(* the caller and the String's length, content, mode and buffer are those   *)
(* from before the call.                                                    *)
C16_AppendAllocFailure ==
    (last.op = "Append" /\ last.failed) => (last.result # "ok" /\ Untouched)

(* C17: when an allocation fails during Erase, Insert, Resize or Reserve,   *)
(* the failure is reported and length, content, capacity and the capacity   *)
(* exponent are those from before the call.                                 *)
C17_AllocFailureRollsBack ==
    (last.failed /\ last.op \in {"Erase", "Insert", "ResizeChar", "ResizeStr", "Reserve"})
    => /\ last.result # "ok"
       /\ len = last.pre_len
       /\ Content = last.pre_content
       /\ Capacity = last.pre_capacity
       /\ size_exp = last.pre_size_exp

\* 2^e >= w, for e up to 64
PowCovers(e, w) ==
    \/ w = Zero64
    \/ e > TopBit(w)
    \/ e = TopBit(w) /\ w = Pow64(e)

\* the smallest e with 2^e >= w
SmallestExp(w) == CHOOSE e \in 0 .. WORD_BITS : PowCovers(e, w) /\ \A f \in 0 .. e - 1 : ~PowCovers(f, w)

(* C18: the exponent computed for a size is the smallest e with 2^e >= size *)
(* (so k for 2^k, never k + 1), and 0 for size 0.                           *)
C18_SmallestExponent ==
    (last.op \in {"_GetExponent", "NextExponent"} /\ Len(last.exps) = 1)
    => last.out = SmallestExp(last.x)

\* C18 for _GetExponent alone
GetExponentExact ==
    (last.op = "_GetExponent" /\ Len(last.exps) = 1) => last.out = SmallestExp(last.x)

(* C19: the exponent of the size an exponent stands for is that exponent:   *)
(* _GetExponent(_ExpToNum(_GetExponent(size))) = _GetExponent(size).        *)
C19_RoundingIdempotent ==
    (last.op = "_GetExponent" /\ Len(last.exps) = 2) => last.exps[2] = last.exps[1]

\* C19 for the sizes whose exponent is below the width of the word
IdempotentBelowWidth ==
    (last.op = "_GetExponent" /\ Len(last.exps) = 2 /\ last.exps[1] < WORD_BITS)
    => last.exps[2] = last.exps[1]

\* the last two calls were Append(a, ..) and Append(b, ..) and both returned
TwoAppends ==
    /\ Ok("Append")
    /\ last.before.op = "Append"
    /\ last.before.result = "ok"

\* the start s followed by the bytes the two Appends take from a and from b
Joined ==
    last.before.pre_content
      \o SubSeq(last.before.str, 1, Min(Len(last.before.str), last.before.size))
      \o SubSeq(last.str, 1, Taken)

\* the String constructed from those bytes
Fresh == StringAppend(Raw(NUL), Joined, SIZE_MAX, NUL, FALSE)

(* C20: s.Append(a) followed by s.Append(b) leaves the content and length   *)
(* of a String constructed from s ++ a ++ b, whatever mode changes and      *)
(* reallocations fall between the two calls.                                *)
C20_AppendAssociative ==
    TwoAppends => (Content = ContentOf(Fresh) /\ len = Fresh.len)

\* C20 for two Appends that executed nothing undefined
AssociativeWhenDefined ==
    (TwoAppends /\ last.before.ub = {} /\ last.ub = {})
    => (Content = ContentOf(Fresh) /\ len = Fresh.len)

(* C21: Insert(bytes, index = length, maxLen) leaves the content, length,   *)
(* mode and capacity that Append(bytes, maxLen) leaves on the same String.  *)
C21_InsertAtEndIsAppend ==
    (last.op = "Insert" /\ "twin" \in DOMAIN last)
    => Shown(Str) = [last.twin EXCEPT !.result = "ok"] /\ last.result = last.twin.result

\* an Insert at the end of a non-empty inline String that moved it to the heap
C21_Witness ==
    /\ last.op = "Insert" /\ "twin" \in DOMAIN last
    /\ last.pre_len > 0 /\ last.i = last.pre_len
    /\ last.pre_mode = "SMALL_STRING" /\ mode = "LARGE_STRING"
    /\ len > last.pre_len

\* the last two calls were Erase(i, k) and Insert(b, i) of the erased bytes
Reinserted == last.op = "Insert" /\ "before" \in DOMAIN last

(* C22: Erase(i, k) followed by Insert(b, i), b the erased bytes, restores  *)
(* the original content and length, also when the Erase moves the String    *)
(* from the heap to the inline buffer and the Insert moves it back.         *)
C22_EraseThenReinsert ==
    Reinserted => /\ last.result = "ok"
                  /\ Content = last.before.pre_content
                  /\ len = last.before.pre_len

\* C22 for an Erase that left the String in the mode it was in
ReinsertRestoresWithinMode ==
    (Reinserted /\ last.before.ub = {} /\ last.ub = {})
    => /\ last.result = "ok"
       /\ Content = last.before.pre_content
       /\ len = last.before.pre_len

\* the String the last call was not made on shows what it showed before
OtherKept ==
    IF last.on = "copy"
    THEN Content = last.other_pre.content /\ len = last.other_pre.len
    ELSE last.other_pre.live =>
           /\ ContentOf(CopyView) = last.other_pre.content
           /\ copy.M.len = last.other_pre.len

\* the constructor took the first min(_len, size) bytes of the source
CopiedBytes ==
    last.op = "Copy" =>
        /\ ContentOf(CopyView) = SubSeq(last.pre_content, 1, Min(last.pre_len, last.size))
        /\ copy.M.len = Min(last.pre_len, last.size)

(* C23: a String constructed from a source String holds the source's bytes  *)
(* in a buffer of its own: the two never share a buffer, and a later call    *)
(* on either leaves the other's length and content unchanged.                *)
C23_CopyIsDeep ==
    copy.live => /\ ~copy.shares
                 /\ "on" \in DOMAIN last => (OtherKept /\ CopiedBytes)

\* C23 while the source's _data is the buffer of the source's mode
CopyIsDeepOffFreedBlock ==
    (/\ copy.live /\ "on" \in DOMAIN last
     /\ (mode = "SMALL_STRING") = (data = "sso")
     /\ (last.on = "source" \/ last.op = "Copy")
           => (last.pre_mode = "SMALL_STRING") = (last.pre_data = "sso"))
    => (~copy.shares /\ OtherKept /\ CopiedBytes)

(* C24: a String constructed from a byte pointer with maxLen holds the      *)
(* first min(len(bytes), maxLen) bytes and Len() is that count, for every   *)
(* input, the empty source and maxLen = 0 included.                         *)
C24_CtorTakesPrefix ==
    last.op \in {"String", "BaseString"} =>
        /\ last.result = "ok"
        /\ len = Taken
        /\ Content = SubSeq(last.str, 1, Taken)
        /\ CellAt(Str, len, 1) = NUL

\* BaseString("ABC", 2) holds "AB"
C24_Witness ==
    /\ last.op = "BaseString" /\ last.str = Upper(3) /\ last.size = 2
    /\ len = 2 /\ Content = Upper(2)

\* a constructor or a mutating call has returned
Mutated ==
    /\ last.op \in {"String", "Append", "Insert", "Erase", "ResizeChar", "ResizeStr"}
    /\ last.result = "ok"

(* C25: after construction and after every Append, Insert, Erase and Resize *)
(* the byte at index Len() of the buffer Cstr() returns is the terminator,  *)
(* and, the inputs holding no zero byte, the number of bytes before the     *)
(* first terminator is Len().                                               *)
C25_Terminated ==
    Mutated => /\ len >= 0 /\ len < Len(BufOf(Str))
               /\ BufOf(Str)[len + 1] = NUL
               /\ StrlenAt(Str, 0) = len
               /\ ~Dangling(Str)

\* the smallest e with 2^e >= n, for the sizes of the allocator's calls
CoveringExp(n) == CHOOSE e \in 0..30 : 2 ^ e >= n /\ \A f \in 0..(e - 1) : 2 ^ f < n

\* the call left the block, the pointer and the exponent as they were and
\* allocated nothing
AllocUntouched ==
    /\ heap = last.pre_heap
    /\ hstate = last.pre_hstate
    /\ size_exp = last.pre_size_exp
    /\ ~last.fresh

(* C26: StringAllocator::Resize(n) returns IGNORED exactly when n is the    *)
(* current capacity 2^size_exp, and then does nothing (no allocation,       *)
(* pointer and size_exp unchanged); otherwise it returns OK with size_exp   *)
(* an exponent that covers n; also on an allocator that never allocated.    *)
C26_ResizeIgnoredIffSame ==
    last.op = "Resize" =>
        /\ (last.code = "IGNORED") <=> (last.size = 2 ^ last.pre_size_exp)
        /\ last.code = "IGNORED" => AllocUntouched
        /\ last.code = "OK" => 2 ^ size_exp >= last.size

(* C27: StringAllocator::Shrink(n) returns IGNORED and leaves size_exp and  *)
(* the buffer unchanged when n >= 2^size_exp or there is no buffer;         *)
(* otherwise it returns OK and size_exp is the smallest e with 2^e >= n.    *)
C27_Shrink ==
    last.op = "Shrink" =>
        IF last.size >= 2 ^ last.pre_size_exp \/ last.pre_hstate = "none"
        THEN last.code = "IGNORED" /\ AllocUntouched
        ELSE last.code = "OK" /\ size_exp = CoveringExp(last.size)

\* Shrink(7) of a block of 16 bytes: size_exp becomes 3
C27_Witness ==
    /\ last.op = "Shrink" /\ last.size = 7 /\ last.pre_size_exp >= 4
    /\ last.code = "OK" /\ size_exp = 3

(* C28: after ReallocToExp(e), and Realloc(n) that calls it, returned OK,   *)
(* size_exp is e, the buffer has 2^e bytes, and the first min(old capacity, *)
(* 2^e) bytes of the old buffer have been copied without reading past its   *)
(* end or from a freed block.                                               *)
C28_ReallocCopies ==
    (last.op \in {"ReallocToExp", "Realloc"} /\ last.code = "OK" /\ last.result = "ok")
    => /\ size_exp = last.exp
       /\ hstate = "live"
       /\ Len(heap) = 2 ^ last.exp
       /\ LET n == Min(Len(last.pre_heap), 2 ^ last.exp)
          IN  SubSeq(heap, 1, n) = SubSeq(last.pre_heap, 1, n)
       /\ last.ub = {}

\* C28 for a new block that is not larger than the old one
ReallocCopiesWhenNotGrowing ==
    (/\ last.op \in {"ReallocToExp", "Realloc"} /\ last.code = "OK"
     /\ last.pre_hstate = "live" /\ 2 ^ last.exp <= Len(last.pre_heap))
    => /\ size_exp = last.exp
       /\ hstate = "live"
       /\ Len(heap) = 2 ^ last.exp
       /\ SubSeq(heap, 1, 2 ^ last.exp) = SubSeq(last.pre_heap, 1, 2 ^ last.exp)
       /\ last.ub = {}

(* C29: Free called twice in a row releases the buffer once and leaves the  *)
(* allocator empty (no buffer, exponent 0), as a single call does.          *)
C29_FreeIdempotent ==
    (last.op = "Free" /\ last.before.op = "Free")
    => /\ last.ub = {}
       /\ size_exp = 0
       /\ hstate = last.pre_hstate


(* C30: Reserve(size) called when the capacity is already at least          *)
(* _ExpToNum(_GetExponent(size)) allocates nothing and leaves the buffer,   *)
(* its capacity and the string in it as they were; only _reserved_exp may   *)
(* change.                                                                  *)
C30_ReserveNoRealloc ==
    (Ok("Reserve") /\ last.pre_capacity >= ExpToNum(GetExponent(last.size)))
    => /\ ~last.fresh
       /\ Capacity = last.pre_capacity
       /\ data = last.pre_data
       /\ hstate = last.pre_hstate
       /\ Untouched

\* the same, for a Reserve that asks for no more than the string's length
\* already rounds up to
ReserveNoReallocWithinLen ==
    (Ok("Reserve") /\ GetExponent(last.pre_len) >= GetExponent(last.size))
    => /\ ~last.fresh
       /\ Capacity = last.pre_capacity
       /\ data = last.pre_data
       /\ hstate = last.pre_hstate

\* the call replaced the block by a smaller one
ShrinkingRealloc == last.fresh /\ Len(heap) < Len(last.pre_heap)

\* a Shrink, also one reached through Resize, replaces the block only when
\* the allocated exponent is at least 2 above the exponent the size needs
ShrinkOnlyAtFactor4 ==
    (last.op \in {"Shrink", "Resize"} /\ last.result = "ok"
       /\ last.pre_hstate = "live" /\ ShrinkingRealloc)
    => last.pre_actual_size_exp - CoveringExp(last.size) >= 2

(* C31: Shrink replaces the block by a smaller one only when the allocated  *)
(* exponent is at least 2 above the exponent the requested size needs, and  *)
(* a Resize that follows a Resize of a size less than 4 times as large      *)
(* never replaces the block by a smaller one.                               *)
C31_ShrinkHysteresis ==
    /\ ShrinkOnlyAtFactor4
    /\ (last.op = "Resize" /\ last.before.op = "Resize"
          /\ last.size >= 1 /\ last.size < last.before.size
          /\ last.before.size < 4 * last.size)
       => ~ShrinkingRealloc

\* the same for two sizes whose rounded capacities are a factor 2 apart
NoShrinkBetweenNeighbours ==
    (last.op = "Resize" /\ last.before.op = "Resize"
       /\ CoveringExp(last.before.size) = CoveringExp(last.size) + 1)
    => ~ShrinkingRealloc

ShrinkFailureUntouched ==
    (last.op \in {"Shrink", "Resize"} /\ last.failed)
    => size_exp = last.pre_size_exp

\* the buffer of the mode the base is in
ActiveBuffer == IF mode = "SMALL_STRING" THEN sso_buffer ELSE heap

\* the bytes of the base the Reference covers, cut to the call's size
Referenced ==
    SubSeq(ActiveBuffer, ref.i + 1, ref.i + Min(ref.len, last.size))

\* bar with the referenced bytes of the base put in
WithReferenced ==
    IF last.op = "BarAppendRef" THEN last.pre_content \o Referenced
    ELSE SubSeq(last.pre_content, 1, last.i) \o Referenced
           \o SubSeq(last.pre_content, last.i + 1, last.pre_len)

(* C33: bar.Append(ref) and bar.Insert(ref, i) with a Reference within the  *)
(* bounds of its base put into bar the bytes [_i, _i + min(_len, size)) of  *)
(* the buffer the base is using now, also after the base has reallocated or *)
(* changed mode since the Reference was made, and read no freed block.      *)
C33_ReferenceReadsCurrentBuffer ==
    (last.op \in {"BarAppendRef", "BarInsertRef"} /\ last.result = "ok")
    => /\ "use_after_free" \notin last.ub
       /\ ContentOf(copy.M) = WithReferenced

\* a use that read only memory the base owns took the base's current bytes
ReferenceReadsOwnedBuffer ==
    (last.op \in {"BarAppendRef", "BarInsertRef"} /\ last.result = "ok"
       /\ last.ub = {})
    => /\ (mode = "SMALL_STRING") = (data = "sso")
       /\ ContentOf(copy.M) = WithReferenced

\* the heap blocks the String has allocated and not freed
LiveBlocks == leaked + (IF hstate = "live" THEN 1 ELSE 0)

(* C34: in every state the String has one live heap block in LARGE_STRING   *)
(* mode, which is the block _data points to, and none in SMALL_STRING mode; *)
(* no call leaks a block and none reads, writes or frees a freed block.     *)
C34_OneLiveBlock ==
    /\ LiveBlocks = (IF mode = "LARGE_STRING" THEN 1 ELSE 0)
    /\ leaked = 0
    /\ mode = "LARGE_STRING" => (data = "heap" /\ hstate = "live")
    /\ last.ub \cap {"use_after_free", "double_free"} = {}

\* the count alone, in the states no call has taken a freed block
LiveBlocksWithoutLeak ==
    leaked = 0 => LiveBlocks = (IF mode = "LARGE_STRING" /\ data = "heap" THEN 1 ELSE 0)

(* C35: an Erase(index, maxLen) that does not throw reads and writes only   *)
(* positions below the capacity of the buffer in use: the move of the tail  *)
(* goes nowhere at or past the end of the buffer, whatever index, maxLen    *)
(* and the mode are.                                                        *)
C35_EraseWithinCapacity ==
    Ok("Erase") => last.ub \cap {"oob_read", "oob_write"} = {}

(* C36: a call of Resize(size, fill) that has entered its fill loop         *)
(* returns, for every size and every fill, the empty fill included.         *)
C36_ResizeTerminates ==
    InFill ~> (last.op = "ResizeFill" /\ last.pc = "done")

\* the same for a fill that is not empty
ResizeTerminatesOnFill ==
    (InFill /\ last.str # <<>>) ~> (last.op = "ResizeFill" /\ last.pc = "done")

\* the bytes of this String its own Reference covered before the call, cut
\* to the call's size
OwnReferenced ==
    SubSeq(last.pre_content, ref.i + 1, ref.i + Min(ref.len, last.size))

(* C37: s.Append(ref) and s.Insert(ref, i) with a Reference into s itself   *)
(* leave s with the referenced bytes, as they were before the call, put at  *)
(* the end or at i, and read no byte from a block the call's own            *)
(* reallocation has freed.                                                  *)
C37_SelfReference ==
    /\ Ok("AppendRef") =>
          /\ "use_after_free" \notin last.ub
          /\ Content = last.pre_content \o OwnReferenced
    /\ Ok("InsertRef") =>
          /\ "use_after_free" \notin last.ub
          /\ Content = SubSeq(last.pre_content, 1, last.i) \o OwnReferenced
                         \o SubSeq(last.pre_content, last.i + 1, last.pre_len)

\* Append of the String's own Reference when the call allocated nothing
SelfAppendInPlace ==
    (Ok("AppendRef") /\ ~last.fresh /\ last.ub = {})
    => Content = last.pre_content \o OwnReferenced

\* a >= b for two unsigned words
Geq64(a, b) ==
    \/ a = b
    \/ \E h \in Bit : a[h] = 1 /\ b[h] = 0 /\ \A c \in Bit : c > h => a[c] = b[c]

(* C38: for every size >= 1 the byte count of the exponent computed for it  *)
(* covers it: _ExpToNum(_GetExponent(size)) >= size, also for size = 1,     *)
(* whose exponent is 0.                                                     *)
C38_AllocationCoversRequest ==
    (last.op = "_ExpToNum" /\ last.x # Zero64) => Geq64(last.out, last.x)

\* the same for the sizes from 2 to 2^63
CoversFromTwo ==
    (last.op = "_ExpToNum" /\ last.x # Zero64 /\ last.x # Pow64(0)
       /\ Geq64(Pow64(WORD_BITS - 1), last.x))
    => (Geq64(last.out, last.x) /\ last.ub = {})

(* C39: in every state of a StringAllocator driven by Resize, Shrink,       *)
(* Realloc and ReallocToExp, size_exp <= actual_size_exp, and after a       *)
(* Resize(n) that returned OK or IGNORED the capacity 2^size_exp is at      *)
(* least n.                                                                 *)
C39_AllocatorExponents ==
    /\ size_exp <= actual_size_exp
    /\ (last.op = "Resize" /\ last.result = "ok") => 2 ^ size_exp >= last.size

C39_Witness ==
    /\ last.op = "Resize" /\ last.size = 7 /\ last.code = "OK"
    /\ last.pre_size_exp = 5 /\ size_exp = 3 /\ actual_size_exp = 3
    /\ last.before.op = "Resize"

====
